---- MODULE Spec2Model ----
(***************************************************************************)
(* Activity event pipeline and automation trigger engine of the Smart      *)
(* Desktop Activity Tracker: the client AutomationManager                  *)
(* (client/src/lib/automationManager.ts), the server trigger matcher and   *)
(* execute route (server/modules/automationManager.ts), the ActivityTracker*)
(* (client/src/lib/activityTracker.ts) and the keyboard logger.            *)
(*                                                                         *)
(* Conventions of the model                                                *)
(*  - a JavaScript string that the code parses or compares (trigger.value, *)
(*    activity.key) is a tuple of one-character strings, so that split()   *)
(*    and Number() are computed and not assumed;                           *)
(*  - application names and suggestion subtypes are TLA+ strings, joined   *)
(*    with \o as Array.join does;                                          *)
(*  - the clock is in milliseconds since local midnight of day 0;          *)
(*  - a confidence c of the code is the integer 100 * c;                   *)
(*  - an absent (undefined) field is "" for text and names, << >> for      *)
(*    mousePosition and NoTimestamp for timestamp.                         *)
(***************************************************************************)
EXTENDS Integers, Sequences, FiniteSets, TLC

VARIABLES
    activityHistory,   \* AutomationManager.activityHistory (client)
    suggestions,       \* AutomationManager.suggestions (client)
    tasks,             \* AutomationManager.tasks (client copy of the task list)
    automationTasks,   \* MemStorage.automationTasks (server), in insertion order
    inflight,          \* executeTask calls suspended at their await fetch(...)
    responses,         \* responses[i] is the status of the response that the
                       \* execute route has sent to inflight[i] and that has
                       \* not reached the client, "none" (also beyond the end)
                       \* while the route has not handled the request
    currentScreenshotId, \* MemStorage.currentScreenshotId (server)
    currentAutomationTaskId, \* MemStorage.currentAutomationTaskId (server)
    creating,          \* createTask calls suspended at their await fetch(...):
                       \* the body posted and the response that the route has
                       \* sent and that has not reached the client
    initializing,      \* number of initialize() calls of the tracker that are
                       \* suspended at an await before setupEventListeners
    notifications,     \* every notifyListeners call of the client manager, in order
    now,               \* wall clock, ms
    appended,          \* history: every activity ever passed to checkForPatterns
    lastActivity,      \* history: the activity of the last checkForPatterns call
    lastNow,           \* history: the clock of the last checkForPatterns call
    evaluated,         \* history: trigger evaluations of the last client checkTriggers
    srvCall,           \* history: arguments, evaluations and result of the last
                       \* server checkTriggers call
    isTracking,        \* ActivityTracker.isTracking
    settings,          \* ActivityTracker.settings
    captureInterval,   \* ActivityTracker.captureInterval (0 for undefined)
    timers,            \* ids of the active window.setInterval timers
    intervals,         \* number of setInterval calls so far (the last id given)
    isLogging,         \* KeyboardLogger.isLogging
    keyBuffer,         \* KeyboardLogger.keyBuffer
    captures,          \* captureActivity invocations suspended at an await
    trackerNotes,      \* every notifyListeners call of the tracker, in order
    saved,             \* every activity passed to saveActivity, in order
    apiCalls,          \* history: number of start/stop/updateSettings calls
    lastCall,          \* history: the last of these calls and isTracking before it
    pressed,           \* history: number of keydown events
    typed,             \* history: the keys of the keydown events that occurred
                       \* while the tracker was tracking, in order
    subscribed,        \* number of setupEventListeners calls: the tracker's
                       \* callbacks in KeyboardLogger.listeners['keypress'] and
                       \* in AutomationManager.listeners['suggestion']
    delays,            \* the delay of every setInterval call so far, by timer id
    fetches,           \* history: what the await fetch(...) of every executeTask
                       \* that has got past it gave, in order: "ok" for a
                       \* response that is ok, "not ok" for another response,
                       \* "rejected" for a fetch that rejects
    results            \* history: what every executeTask and createTask call,
                       \* every captureScreen call of the server module and
                       \* every request of another caller to a route returned

managerVars == <<activityHistory, suggestions, notifications, inflight, evaluated,
                 appended, lastActivity, lastNow>>

trackerVars == <<isTracking, settings, captureInterval, timers, intervals,
                 isLogging, keyBuffer, captures, trackerNotes, saved, apiCalls,
                 lastCall, pressed, typed, subscribed, delays>>

vars == <<activityHistory, suggestions, tasks, automationTasks, inflight,
          responses, currentScreenshotId, currentAutomationTaskId, creating,
          initializing, notifications, now, appended, lastActivity, lastNow,
          evaluated, srvCall,
          isTracking, settings, captureInterval, timers, intervals, isLogging,
          keyBuffer, captures, trackerNotes, saved, apiCalls, lastCall,
          pressed, typed, subscribed, delays, fetches, results>>

-----------------------------------------------------------------------------
(* Bounds of the model *)

\* events fed to checkForPatterns in Spec
MaxEvents == 1
\* clock ticks in Spec
MaxTicks == 2
\* overflowing appends in SpecHistory (appends beyond historyMaxLength)
MaxOverflow == 3
\* freely chosen application events after the scripted warm-up in SpecDetect
MaxFree == 9
\* start, stop and updateSettings calls in SpecTracker
MaxCalls == 2
\* keydown events in SpecTracker
MaxKeys == 1
\* periodic captures started in SpecTracker
MaxCaptures == 1
\* execute operations in SpecExecute
MaxExecutions == 2
\* clicks at the start and clicks at the end of the initial history in
\* SpecWindow
MaxClicks == 2
\* events between those clicks in SpecWindow
MaxFill == 19
\* events fed after the initial history in SpecWindow
MaxTail == 2
\* captureActivity runs started in SpecOverlap
MaxOverlap == 2
\* events processed in SpecMinute
MaxBurst == 2
\* keydown events in SpecKeys, SpecInit and SpecSettings, and after the
\* initial word in SpecBuffer
MaxTyped == 3
\* calls of initialize() after the first in SpecInit
MaxInitialize == 1
\* requests for a screenshot that no capture run of the tracker has sent
MaxScreenshots == 2

-----------------------------------------------------------------------------
(* Program constants *)

historyMaxLength == 1000
minHistory == 10
recentWindow == 20
repeatThreshold == 3
maxSuggestions == 10
tolerance == 20
appSample == 5
bufferLimit == 20

\* the model's first instant: 09:29:59.999, one tick before 09:30
T0 == ((9 * 60 + 29) * 60 + 59) * 1000 + 999

\* result of Number() on a non-numeric string, and of arithmetic on undefined;
\* every number of the model is >= 0, so the value is outside their range
NaN == 0 - 1
NoTimestamp == 0 - 1

-----------------------------------------------------------------------------
(* JavaScript primitives used by the matcher *)

Digits == <<"0", "1", "2", "3", "4", "5", "6", "7", "8", "9">>

IsDigit(c) == \E i \in 1..10 : Digits[i] = c

DigitVal(c) == (CHOOSE i \in 1..10 : Digits[i] = c) - 1

RECURSIVE DecimalValue(_)
DecimalValue(s) ==
    IF s = << >> THEN 0
    ELSE 10 * DecimalValue(SubSeq(s, 1, Len(s) - 1)) + DigitVal(s[Len(s)])

\* Number(s) for the strings of the model: "" is 0, a digit string its value,
\* anything else NaN
Number(s) ==
    IF s = << >> THEN 0
    ELSE IF \A i \in 1..Len(s) : IsDigit(s[i]) THEN DecimalValue(s)
    ELSE NaN

\* String.prototype.split(sep) for a one-character separator
RECURSIVE Split(_, _)
Split(s, sep) ==
    IF \A i \in 1..Len(s) : s[i] # sep THEN <<s>>
    ELSE LET i == CHOOSE k \in 1..Len(s) :
                      s[k] = sep /\ \A j \in 1..(k - 1) : s[j] # sep
         IN  <<SubSeq(s, 1, i - 1)>> \o Split(SubSeq(s, i + 1, Len(s)), sep)

\* trigger.value.split(sep).map(Number), destructured at position i
\* (a missing position is undefined, which compares like NaN)
Part(value, sep, i) ==
    LET parts == Split(value, sep)
    IN  IF i <= Len(parts) THEN Number(parts[i]) ELSE NaN

\* a <= b and a + b of JavaScript numbers
Leq(a, b) == a # NaN /\ b # NaN /\ a <= b
Plus(a, b) == IF a = NaN \/ b = NaN THEN NaN ELSE a + b
Abs(a) == IF a < 0 THEN -a ELSE a

\* Date.prototype.getHours / getMinutes
getHours(t) == (t \div 3600000) % 24
getMinutes(t) == (t \div 60000) % 60

\* Array.prototype.slice(-n)
SliceLast(s, n) == IF Len(s) <= n THEN s ELSE SubSeq(s, Len(s) - n + 1, Len(s))

\* Array.prototype.join(sep) on TLA+ strings
RECURSIVE Join(_, _)
Join(names, sep) ==
    IF names = << >> THEN ""
    ELSE IF Len(names) = 1 THEN names[1]
    ELSE names[1] \o sep \o Join(Tail(names), sep)

-----------------------------------------------------------------------------
(* Activities *)

NoActivity == [type |-> "none", timestamp |-> NoTimestamp, key |-> << >>,
               isSpecialKey |-> FALSE, text |-> "", x |-> 0, y |-> 0,
               mousePosition |-> << >>, appName |-> "", screenshot |-> "",
               textConfidence |-> 0]

Keyboard(key, special, text) ==
    [NoActivity EXCEPT !.type = "keyboard", !.key = key,
                       !.isSpecialKey = special, !.text = text]
MouseClick(x, y) == [NoActivity EXCEPT !.type = "mouse_click", !.x = x, !.y = y]
\* the path that the route POST /api/capture answers for the screenshot
\* stored under id, and the path of captureScreen's placeholder
ServedPath(id) == "/api/screenshots/" \o ToString(id)
PlaceholderPath == "/placeholder-screenshot.svg"
\* the confidence that the route POST /api/ocr reports
ServedConfidence == 85

ScreenCapture(pos, app) ==
    [NoActivity EXCEPT !.type = "screen_capture", !.mousePosition = pos,
                       !.appName = app, !.screenshot = ServedPath(1),
                       !.textConfidence = ServedConfidence]
Application(name) == [NoActivity EXCEPT !.type = "application", !.appName = name]
System == [NoActivity EXCEPT !.type = "system"]

At(a, t) == [a EXCEPT !.timestamp = t]

-----------------------------------------------------------------------------
(* Suggestion store: createSuggestion and hasExistingSuggestion.            *)
(* A store value st is [sugs |-> suggestions, notes |-> notifications,      *)
(* listeners |-> the callbacks subscribed to 'suggestion'].                  *)

\* the callbacks subscribed with on('task', ...): the first one throws
\* whenever it is called
TaskListeners == <<[id |-> 1, throws |-> TRUE], [id |-> 2, throws |-> FALSE]>>

\* the callbacks subscribed with on('suggestion', ...): one callback of the
\* tracker for every setupEventListeners call
SuggestionListeners == [i \in 1..subscribed |-> [id |-> 0, throws |-> FALSE]]

\* notifyListeners without its try/catch: the first callback that throws ends
\* the forEach and the exception reaches the caller
notifyListenersNoCatch(listeners, data) ==
    LET throwing == {i \in 1..Len(listeners) : listeners[i].throws}
        last == IF throwing = {} THEN Len(listeners)
                ELSE CHOOSE i \in throwing : \A j \in throwing : i <= j
    IN  [note  |-> [data EXCEPT !.receivedBy =
                       [i \in 1..last |-> listeners[i].id]],
         threw |-> throwing # {}]

\* notifyListeners(event, data) for the callbacks subscribed to the event:
\* every callback is called in a try/catch of its own, so that all of them
\* receive the data and nothing is thrown to the caller
notifyListeners(listeners, data) ==
    [note  |-> [data EXCEPT !.receivedBy =
                   [i \in 1..Len(listeners) |-> listeners[i].id]],
     threw |-> FALSE]

SuggestionNote(listeners, s) ==
    notifyListeners(listeners,
        [event |-> "suggestion", id |-> s.id, type |-> s.type,
         subtype |-> s.subtype, taskId |-> 0, success |-> FALSE,
         receivedBy |-> << >>]).note

ExecutionNote(taskId, ok) ==
    [event |-> "task", id |-> 0, type |-> "execution", subtype |-> "",
     taskId |-> taskId, success |-> ok, receivedBy |-> << >>]

\* the data of the 'task' notification of createTask
CreationNote(taskId) ==
    [event |-> "task", id |-> 0, type |-> "create", subtype |-> "",
     taskId |-> taskId, success |-> FALSE, receivedBy |-> << >>]

\* hasExistingSuggestion reading type and subtype on the suggestion itself
\* instead of its metadata: both are undefined there and equal no key
hasExistingSuggestionNoMetadata(sugs, type, subtype) ==
    \E i \in 1..Len(sugs) : "undefined" = type /\ "undefined" = subtype

hasExistingSuggestion(sugs, type, subtype) ==
    \E i \in 1..Len(sugs) : sugs[i].type = type /\ sugs[i].subtype = subtype

\* createSuggestion evicting the newest suggestion (pop for shift)
createSuggestionPop(st, data, t) ==
    LET suggestion == [id |-> t, title |-> data.title,
                       confidence |-> data.confidence,
                       activities |-> data.activities, createdAt |-> t,
                       type |-> data.type, subtype |-> data.subtype]
        pushed == Append(st.sugs, suggestion)
    IN  [sugs  |-> IF Len(pushed) > maxSuggestions
                   THEN SubSeq(pushed, 1, Len(pushed) - 1) ELSE pushed,
         notes |-> Append(st.notes, SuggestionNote(st.listeners, suggestion)),
         listeners |-> st.listeners]

createSuggestion(st, data, t) ==
    LET suggestion == [id |-> t, title |-> data.title,
                       confidence |-> data.confidence,
                       activities |-> data.activities, createdAt |-> t,
                       type |-> data.type, subtype |-> data.subtype]
        pushed == Append(st.sugs, suggestion)
    IN  [sugs  |-> IF Len(pushed) > maxSuggestions THEN Tail(pushed) ELSE pushed,
         notes |-> Append(st.notes, SuggestionNote(st.listeners, suggestion)),
         listeners |-> st.listeners]

-----------------------------------------------------------------------------
(* Pattern detectors *)

\* the keys of typeCounts in insertion order: activity types of the window in
\* order of first occurrence
RECURSIVE TypeOrder(_, _)
TypeOrder(window, seen) ==
    IF window = << >> THEN seen
    ELSE LET ty == Head(window).type
         IN  TypeOrder(Tail(window),
                       IF \E i \in 1..Len(seen) : seen[i] = ty
                       THEN seen ELSE Append(seen, ty))

TypeCount(window, ty) == Cardinality({i \in 1..Len(window) : window[i].type = ty})

\* body of the loop with the confidence of the keyboard branch in both
RepeatedStepSameConfidence(st, window, ty, t) ==
    IF TypeCount(window, ty) < repeatThreshold THEN st
    ELSE IF hasExistingSuggestion(st.sugs, "repeated_sequence", ty) THEN st
    ELSE LET activities == SelectSeq(window, LAMBDA a : a.type = ty)
         IN  IF ty = "keyboard"
                /\ \E i \in 1..Len(activities) : activities[i].text # ""
             THEN createSuggestion(st,
                      [title |-> "Repeated Text Input", confidence |-> 70,
                       activities |-> activities, type |-> "repeated_sequence",
                       subtype |-> ty], t)
             ELSE IF ty = "mouse_click"
             THEN createSuggestion(st,
                      [title |-> "Repeated Clicks Detected", confidence |-> 70,
                       activities |-> activities, type |-> "repeated_sequence",
                       subtype |-> ty], t)
             ELSE st

\* body of the loop without the test that some keyboard activity has text
RepeatedStepNoTextTest(st, window, ty, t) ==
    IF TypeCount(window, ty) < repeatThreshold THEN st
    ELSE IF hasExistingSuggestion(st.sugs, "repeated_sequence", ty) THEN st
    ELSE LET activities == SelectSeq(window, LAMBDA a : a.type = ty)
         IN  IF ty = "keyboard"
             THEN createSuggestion(st,
                      [title |-> "Repeated Text Input", confidence |-> 70,
                       activities |-> activities, type |-> "repeated_sequence",
                       subtype |-> ty], t)
             ELSE IF ty = "mouse_click"
             THEN createSuggestion(st,
                      [title |-> "Repeated Clicks Detected", confidence |-> 60,
                       activities |-> activities, type |-> "repeated_sequence",
                       subtype |-> ty], t)
             ELSE st

\* body of the loop over Object.entries(typeCounts) for one type
RepeatedStep(st, window, ty, t) ==
    IF TypeCount(window, ty) < repeatThreshold THEN st
    ELSE IF hasExistingSuggestion(st.sugs, "repeated_sequence", ty) THEN st
    ELSE LET activities == SelectSeq(window, LAMBDA a : a.type = ty)
         IN  IF ty = "keyboard"
                /\ \E i \in 1..Len(activities) : activities[i].text # ""
             THEN createSuggestion(st,
                      [title |-> "Repeated Text Input", confidence |-> 70,
                       activities |-> activities, type |-> "repeated_sequence",
                       subtype |-> ty], t)
             ELSE IF ty = "mouse_click"
             THEN createSuggestion(st,
                      [title |-> "Repeated Clicks Detected", confidence |-> 60,
                       activities |-> activities, type |-> "repeated_sequence",
                       subtype |-> ty], t)
             ELSE st

RECURSIVE RepeatedLoop(_, _, _, _)
RepeatedLoop(st, window, types, t) ==
    IF types = << >> THEN st
    ELSE RepeatedLoop(RepeatedStep(st, window, Head(types), t), window,
                      Tail(types), t)

\* detectRepeatedSequence counting over the whole history
detectRepeatedSequenceWholeHistory(st, history, t) ==
    RepeatedLoop(st, history, TypeOrder(history, << >>), t)

detectRepeatedSequence(st, history, t) ==
    LET recentActivities == SliceLast(history, recentWindow)
    IN  RepeatedLoop(st, recentActivities, TypeOrder(recentActivities, << >>), t)

detectTimeBasedPatterns(st, history, t) == st

IsAppActivity(a) ==
    \/ a.type = "application"
    \/ a.type = "screen_capture" /\ a.appName # ""

\* the scan putting each new name in front of those found before it
RECURSIVE RecentAppsChronological(_, _, _)
RecentAppsChronological(appActivities, i, recentApps) ==
    IF i < 1 \/ Len(recentApps) >= 3 THEN recentApps
    ELSE LET appName == appActivities[i].appName
         IN  RecentAppsChronological(appActivities, i - 1,
                        IF appName # "" /\ \A k \in 1..Len(recentApps) :
                                              recentApps[k] # appName
                        THEN <<appName>> \o recentApps ELSE recentApps)

\* the backward scan for the last 3 unique applications, from index i down
RECURSIVE RecentApps(_, _, _)
RecentApps(appActivities, i, recentApps) ==
    IF i < 1 \/ Len(recentApps) >= 3 THEN recentApps
    ELSE LET appName == appActivities[i].appName
         IN  RecentApps(appActivities, i - 1,
                        IF appName # "" /\ \A k \in 1..Len(recentApps) :
                                              recentApps[k] # appName
                        THEN Append(recentApps, appName) ELSE recentApps)

detectApplicationPatterns(st, history, t) ==
    LET appActivities == SelectSeq(history, IsAppActivity)
        recentApps == RecentApps(appActivities, Len(appActivities), << >>)
        sequenceKey == Join(recentApps, ",")
    IN  IF Len(appActivities) < 3 THEN st
        ELSE IF Len(recentApps) # 3 THEN st
        ELSE IF hasExistingSuggestion(st.sugs, "app_sequence", sequenceKey) THEN st
        ELSE createSuggestion(st,
                 [title |-> "Application Sequence", confidence |-> 65,
                  activities |-> SliceLast(appActivities, appSample),
                  type |-> "app_sequence", subtype |-> sequenceKey], t)

\* detectPatterns without the test of the history length
detectPatternsNoMinimum(st, history, t) ==
    detectApplicationPatterns(
        detectTimeBasedPatterns(
            detectRepeatedSequence(st, history, t), history, t), history, t)

detectPatterns(st, history, t) ==
    IF Len(history) < minHistory THEN st
    ELSE detectApplicationPatterns(
             detectTimeBasedPatterns(
                 detectRepeatedSequence(st, history, t), history, t), history, t)

\* pushActivity keeping the oldest historyMaxLength activities (slice(0, n))
pushActivityKeepOldest(history, activity) ==
    LET pushed == Append(history, activity)
    IN  IF Len(pushed) > historyMaxLength
        THEN SubSeq(pushed, 1, historyMaxLength) ELSE pushed

\* pushActivity with the trim applied one activity late (>= for >, off by one)
pushActivityLateTrim(history, activity) ==
    LET pushed == Append(history, activity)
    IN  IF Len(pushed) > historyMaxLength + 1
        THEN SliceLast(pushed, historyMaxLength) ELSE pushed

\* the push and trim of checkForPatterns
pushActivity(history, activity) ==
    LET pushed == Append(history, activity)
    IN  IF Len(pushed) > historyMaxLength
        THEN SliceLast(pushed, historyMaxLength) ELSE pushed

-----------------------------------------------------------------------------
(* Automation tasks of the model *)

KeyF5 == <<"F", "5">>
KeyEnter == <<"E", "n", "t", "e", "r">>
KeyTextInput == <<"t", "e", "x", "t", "-", "i", "n", "p", "u", "t">>
\* "10,10,50,50"
Region1 == <<"1", "0", ",", "1", "0", ",", "5", "0", ",", "5", "0">>
\* "0,0,20,20"
Region2 == <<"0", ",", "0", ",", "2", "0", ",", "2", "0">>
\* "10,10": a click trigger value with width and height missing
RegionShort == <<"1", "0", ",", "1", "0">>
\* "09:30"
HalfPastNine == <<"0", "9", ":", "3", "0">>
\* "100,100"
Spot == <<"1", "0", "0", ",", "1", "0", "0">>

Trigger(type, value) == [type |-> type, value |-> value]

\* a stored task that has not been executed; steps is the list of its steps
Task(id, userId, name, steps, isActive, triggers) ==
    [id |-> id, userId |-> userId, name |-> name, description |-> "",
     steps |-> steps, isActive |-> isActive, triggers |-> triggers,
     executionCount |-> 0, lastExecuted |-> NoTimestamp]

\* the task list in storage, which the client loads with GET /api/automation-tasks
StoredTasks ==
    << Task(1, 1, "Refresh", <<"press F5", "wait">>, TRUE,
            <<Trigger("keyboard", KeyF5), Trigger("click", Region1),
              Trigger("click", Region2)>>),
       Task(2, 1, "Open menu", <<"click menu">>, TRUE,
            <<Trigger("click", Region2), Trigger("click", Region1)>>),
       Task(3, 1, "Morning mail", <<"open mail", "check inbox">>, TRUE,
            <<Trigger("time", HalfPastNine), Trigger("mouse", Spot)>>),
       Task(4, 1, "Paused", <<"press F5">>, FALSE,
            <<Trigger("keyboard", KeyF5), Trigger("time", HalfPastNine)>>),
       Task(5, 1, "Fill form", <<"type name", "press Tab">>, TRUE,
            <<Trigger("keyboard", KeyTextInput), Trigger("click", RegionShort),
              Trigger("gesture", KeyF5)>>),
       Task(6, 2, "Submit", <<"press Enter">>, TRUE,
            <<Trigger("keyboard", KeyEnter), Trigger("click", Region1)>>) >>

\* currentAutomationTaskId after createAutomationTask has stored the tasks:
\* it has given the ids from 1 on in order, and no later operation sets the
\* counter back
NextId(stored) ==
    1 + (CHOOSE n \in {stored[k].id : k \in 1..Len(stored)} :
             \A k \in 1..Len(stored) : stored[k].id <= n)

-----------------------------------------------------------------------------
(* Trigger matcher, client: the cases of the switch in checkTriggers *)

\* case 'time': the clock of the call against "HH:MM"
ClientTimeMatches(t, value) ==
    /\ getHours(t) = Part(value, ":", 1)
    /\ getMinutes(t) = Part(value, ":", 2)

\* case 'mouse' with the tolerance boundary excluded (< for <=)
ClientMouseMatchesStrict(activity, value) ==
    /\ activity.type = "screen_capture"
    /\ activity.mousePosition # << >>
    /\ LET targetX == Part(value, ",", 1)
           targetY == Part(value, ",", 2)
       IN  /\ targetX # NaN
           /\ targetY # NaN
           /\ Abs(activity.mousePosition[1] - targetX) < tolerance
           /\ Abs(activity.mousePosition[2] - targetY) < tolerance

\* case 'mouse'
ClientMouseMatches(activity, value) ==
    /\ activity.type = "screen_capture"
    /\ activity.mousePosition # << >>
    /\ LET targetX == Part(value, ",", 1)
           targetY == Part(value, ",", 2)
       IN  /\ targetX # NaN
           /\ targetY # NaN
           /\ Abs(activity.mousePosition[1] - targetX) <= tolerance
           /\ Abs(activity.mousePosition[2] - targetY) <= tolerance

\* case 'keyboard' without the isSpecialKey test
ClientKeyboardMatchesAnyKey(activity, value) ==
    /\ activity.type = "keyboard"
    /\ activity.key = value

\* case 'keyboard'
ClientKeyboardMatches(activity, value) ==
    /\ activity.type = "keyboard"
    /\ activity.isSpecialKey
    /\ activity.key = value

\* case 'click' with the right and bottom edges excluded (< for <=)
ClientClickMatchesExclusive(activity, value) ==
    /\ activity.type = "mouse_click"
    /\ LET x == Part(value, ",", 1)
           y == Part(value, ",", 2)
           width == Part(value, ",", 3)
           height == Part(value, ",", 4)
       IN  /\ Leq(x, activity.x)
           /\ Leq(activity.x, Plus(x, width)) /\ activity.x # Plus(x, width)
           /\ Leq(y, activity.y)
           /\ Leq(activity.y, Plus(y, height)) /\ activity.y # Plus(y, height)

\* case 'click'
ClientClickMatches(activity, value) ==
    /\ activity.type = "mouse_click"
    /\ LET x == Part(value, ",", 1)
           y == Part(value, ",", 2)
           width == Part(value, ",", 3)
           height == Part(value, ",", 4)
       IN  /\ Leq(x, activity.x)
           /\ Leq(activity.x, Plus(x, width))
           /\ Leq(y, activity.y)
           /\ Leq(activity.y, Plus(y, height))

\* the value of shouldTrigger after the switch for one trigger
ClientTriggerMatches(activity, trigger, t) ==
    CASE trigger.type = "time" -> ClientTimeMatches(t, trigger.value)
      [] trigger.type = "mouse" -> ClientMouseMatches(activity, trigger.value)
      [] trigger.type = "keyboard" -> ClientKeyboardMatches(activity, trigger.value)
      [] trigger.type = "click" -> ClientClickMatches(activity, trigger.value)
      [] OTHER -> FALSE

\* the trigger loop without the break: shouldTrigger, set by the first match,
\* stays true and executeTask is called again for every later trigger
RECURSIVE ClientTriggerLoopFrom(_, _, _, _, _)
ClientTriggerLoopFrom(task, activity, t, i, shouldTrigger) ==
    IF i > Len(task.triggers) THEN << >>
    ELSE LET should == shouldTrigger
                         \/ ClientTriggerMatches(activity, task.triggers[i], t)
             step == [taskId |-> task.id, index |-> i,
                      trigger |-> task.triggers[i], matched |-> should]
         IN  <<step>> \o ClientTriggerLoopFrom(task, activity, t, i + 1, should)

ClientTriggerLoopNoBreak(task, activity, t, i) ==
    ClientTriggerLoopFrom(task, activity, t, i, FALSE)

\* the loop over task.triggers from index i: one record per trigger evaluated,
\* ending at the first match (the break after executeTask)
RECURSIVE ClientTriggerLoop(_, _, _, _)
ClientTriggerLoop(task, activity, t, i) ==
    IF i > Len(task.triggers) THEN << >>
    ELSE LET shouldTrigger == ClientTriggerMatches(activity, task.triggers[i], t)
             step == [taskId |-> task.id, index |-> i,
                      trigger |-> task.triggers[i], matched |-> shouldTrigger]
         IN  IF shouldTrigger THEN <<step>>
             ELSE <<step>> \o ClientTriggerLoop(task, activity, t, i + 1)

\* the loop over this.tasks without the isActive test
RECURSIVE checkTriggersAnyTask(_, _, _)
checkTriggersAnyTask(taskList, activity, t) ==
    IF taskList = << >> THEN << >>
    ELSE ClientTriggerLoop(Head(taskList), activity, t, 1)
         \o checkTriggersAnyTask(Tail(taskList), activity, t)

\* the loop over this.tasks: the trigger evaluations of one checkTriggers call
RECURSIVE checkTriggers(_, _, _)
checkTriggers(taskList, activity, t) ==
    IF taskList = << >> THEN << >>
    ELSE (IF Head(taskList).isActive
          THEN ClientTriggerLoop(Head(taskList), activity, t, 1) ELSE << >>)
         \o checkTriggers(Tail(taskList), activity, t)

\* the executeTask(task.id) calls of a sequence of trigger evaluations
RECURSIVE ExecuteCalls(_)
ExecuteCalls(evals) ==
    IF evals = << >> THEN << >>
    ELSE (IF Head(evals).matched THEN <<Head(evals).taskId>> ELSE << >>)
         \o ExecuteCalls(Tail(evals))

-----------------------------------------------------------------------------
(* Trigger matcher, server *)

\* case 'time': the activity's own timestamp against "HH:MM"
ServerTimeMatches(activity, value) ==
    /\ activity.type = "system"
    /\ activity.timestamp # NoTimestamp
    /\ getHours(activity.timestamp) = Part(value, ":", 1)
    /\ getMinutes(activity.timestamp) = Part(value, ":", 2)

\* case 'mouse'
ServerMouseMatches(activity, value) ==
    /\ activity.type = "screen_capture"
    /\ activity.mousePosition # << >>
    /\ LET targetX == Part(value, ",", 1)
           targetY == Part(value, ",", 2)
       IN  /\ targetX # NaN
           /\ targetY # NaN
           /\ Abs(activity.mousePosition[1] - targetX) <= tolerance
           /\ Abs(activity.mousePosition[2] - targetY) <= tolerance

\* case 'keyboard'
ServerKeyboardMatches(activity, value) ==
    /\ activity.type = "keyboard"
    /\ activity.isSpecialKey
    /\ activity.key = value

\* case 'click'
ServerClickMatches(activity, value) ==
    /\ activity.type = "mouse_click"
    /\ LET x == Part(value, ",", 1)
           y == Part(value, ",", 2)
           width == Part(value, ",", 3)
           height == Part(value, ",", 4)
       IN  /\ Leq(x, activity.x)
           /\ Leq(activity.x, Plus(x, width))
           /\ Leq(y, activity.y)
           /\ Leq(activity.y, Plus(y, height))

activityMatchesTrigger(activity, trigger) ==
    CASE trigger.type = "time" -> ServerTimeMatches(activity, trigger.value)
      [] trigger.type = "mouse" -> ServerMouseMatches(activity, trigger.value)
      [] trigger.type = "keyboard" -> ServerKeyboardMatches(activity, trigger.value)
      [] trigger.type = "click" -> ServerClickMatches(activity, trigger.value)
      [] OTHER -> FALSE

\* the loop over task.triggers: it ends at the first match (return task)
RECURSIVE ServerTriggerLoop(_, _, _)
ServerTriggerLoop(task, activity, i) ==
    IF i > Len(task.triggers) THEN << >>
    ELSE LET m == activityMatchesTrigger(activity, task.triggers[i])
             step == [taskId |-> task.id, index |-> i,
                      trigger |-> task.triggers[i], matched |-> m]
         IN  IF m THEN <<step>>
             ELSE <<step>> \o ServerTriggerLoop(task, activity, i + 1)

\* the loop over the user's tasks: it ends at the first task that matches
RECURSIVE ServerTaskLoop(_, _)
ServerTaskLoop(taskList, activity) ==
    IF taskList = << >> THEN << >>
    ELSE LET evals == IF Head(taskList).isActive
                      THEN ServerTriggerLoop(Head(taskList), activity, 1)
                      ELSE << >>
         IN  IF evals # << >> /\ evals[Len(evals)].matched THEN evals
             ELSE evals \o ServerTaskLoop(Tail(taskList), activity)

getAutomationTasksByUserId(stored, userId) ==
    SelectSeq(stored, LAMBDA task : task.userId = userId)

\* the task returned by the server checkTriggers (0 for null), from the trigger
\* evaluations it made
ReturnedTask(evals) ==
    IF evals # << >> /\ evals[Len(evals)].matched
    THEN evals[Len(evals)].taskId ELSE 0

-----------------------------------------------------------------------------
(* Client operations *)

\* the synchronous part of executeTask(taskId), up to its await fetch(...)
executeTaskStart(pending, taskList, taskId) ==
    IF \E i \in 1..Len(taskList) : taskList[i].id = taskId
    THEN Append(pending, taskId) ELSE pending

RECURSIVE executeAll(_, _, _)
executeAll(pending, taskList, calls) ==
    IF calls = << >> THEN pending
    ELSE executeAll(executeTaskStart(pending, taskList, Head(calls)), taskList,
                    Tail(calls))

\* checkForPatterns leaving the trigger matching of its activity to the next
\* call: each call matches the activity that the call before it appended
checkForPatternsDeferredMatch(m, taskList, activity, t) ==
    LET history == pushActivity(m.activityHistory, activity)
        st == detectPatterns([sugs |-> m.suggestions, notes |-> m.notifications,
                              listeners |-> m.listeners], history, t)
        evals == IF m.activityHistory = << >> THEN << >>
                 ELSE checkTriggers(taskList,
                                    m.activityHistory[Len(m.activityHistory)], t)
    IN  [activityHistory |-> history,
         suggestions |-> st.sugs,
         notifications |-> st.notes,
         inflight |-> executeAll(m.inflight, taskList, ExecuteCalls(evals)),
         evaluated |-> evals,
         listeners |-> m.listeners]

\* checkForPatterns(activity) at time t on the manager m =
\* [activityHistory, suggestions, notifications, inflight, evaluated]
checkForPatterns(m, taskList, activity, t) ==
    LET history == pushActivity(m.activityHistory, activity)
        st == detectPatterns([sugs |-> m.suggestions, notes |-> m.notifications,
                              listeners |-> m.listeners], history, t)
        evals == checkTriggers(taskList, activity, t)
    IN  [activityHistory |-> history,
         suggestions |-> st.sugs,
         notifications |-> st.notes,
         inflight |-> executeAll(m.inflight, taskList, ExecuteCalls(evals)),
         evaluated |-> evals,
         listeners |-> m.listeners]

Manager ==
    [activityHistory |-> activityHistory, suggestions |-> suggestions,
     notifications |-> notifications, inflight |-> inflight,
     evaluated |-> evaluated, listeners |-> SuggestionListeners]

\* the data that the tracker's 'suggestion' listener passes on
AutomationNote(note) == [note EXCEPT !.event = "automation"]

\* the tracker notifications caused by the manager notifications after the
\* first n: setupEventListeners subscribes to 'suggestion' only, and every
\* callback that it has subscribed passes the suggestion on
RECURSIVE Forwarded(_, _)
Forwarded(notes, n) ==
    IF n >= Len(notes) THEN << >>
    ELSE (IF notes[n + 1].event = "suggestion"
          THEN [i \in 1..Len(notes[n + 1].receivedBy) |->
                   AutomationNote(notes[n + 1])]
          ELSE << >>)
         \o Forwarded(notes, n + 1)

\* the effect of checkForPatterns(activity) on the manager and, through the
\* tracker's listener, on the tracker notifications that follow notes
ManagerStep(activity, notes) ==
    LET after == checkForPatterns(Manager, tasks, activity, now)
    IN  /\ activityHistory' = after.activityHistory
        /\ suggestions' = after.suggestions
        /\ notifications' = after.notifications
        /\ inflight' = after.inflight
        /\ evaluated' = after.evaluated
        /\ appended' = Append(appended, activity)
        /\ lastActivity' = activity
        /\ lastNow' = now
        /\ trackerNotes' = notes \o Forwarded(after.notifications,
                                              Len(notifications))

\* a call of checkForPatterns(activity); elapsed is the time that passes before
\* the next operation starts
CheckForPatterns(activity, elapsed) ==
    /\ ManagerStep(activity, trackerNotes)
    /\ now' = now + elapsed
    /\ UNCHANGED <<fetches, currentAutomationTaskId, creating, initializing,
                   results, tasks, automationTasks, srvCall, responses, currentScreenshotId, isTracking, typed, subscribed, delays, settings,
                   captureInterval, timers, intervals, isLogging, keyBuffer,
                   captures, saved, apiCalls, lastCall, pressed>>

-----------------------------------------------------------------------------
(* Keyboard logger and activity tracker (client/src/lib/activityTracker.ts). *)
(* A tracker value tr holds the fields of the tracker and of the keyboard    *)
(* logger, the tracker notifications, and in accepted the activities that   *)
(* the callbacks of the running handler build, save, notify and check.      *)

Tracker ==
    [isTracking |-> isTracking, settings |-> settings,
     captureInterval |-> captureInterval, timers |-> timers,
     intervals |-> intervals, isLogging |-> isLogging, keyBuffer |-> keyBuffer,
     subscribed |-> subscribed, delays |-> delays,
     trackerNotes |-> trackerNotes, accepted |-> << >>]

SystemNote(message) == [event |-> "activity", data |-> message]
ActivityNote(activity) == [event |-> "activity", data |-> activity]
ScreenshotNote(shot) == [event |-> "screenshot", data |-> shot]

\* KeyboardLogger.specialKeys
specialKeys ==
    { <<"S", "h", "i", "f", "t">>, <<"C", "o", "n", "t", "r", "o", "l">>,
      <<"A", "l", "t">>, <<"M", "e", "t", "a">>, <<"E", "n", "t", "e", "r">>,
      <<"T", "a", "b">>, <<"E", "s", "c", "a", "p", "e">>,
      <<"B", "a", "c", "k", "s", "p", "a", "c", "e">>,
      <<"D", "e", "l", "e", "t", "e">>, <<"A", "r", "r", "o", "w", "U", "p">>,
      <<"A", "r", "r", "o", "w", "D", "o", "w", "n">>,
      <<"A", "r", "r", "o", "w", "L", "e", "f", "t">>,
      <<"A", "r", "r", "o", "w", "R", "i", "g", "h", "t">>,
      <<"H", "o", "m", "e">>, <<"E", "n", "d">>,
      <<"P", "a", "g", "e", "U", "p">>,
      <<"P", "a", "g", "e", "D", "o", "w", "n">> }

\* specialKeys.has(key) || key.startsWith('F') && /F\d+/.test(key)
isSpecialKey(key) ==
    \/ key \in specialKeys
    \/ /\ Len(key) >= 1 /\ key[1] = "F"
       /\ \E i \in 1..(Len(key) - 1) : key[i] = "F" /\ IsDigit(key[i + 1])

\* the keys that flush the buffer, besides the space
flushKeys == { <<".">>, <<",">>, <<"!">>, <<"?">>, <<";">>, <<":">>, <<"\n">> }

\* keyBuffer.join(''), as a TLA+ string
RECURSIVE TextOf(_)
TextOf(buffer) ==
    IF buffer = << >> THEN ""
    ELSE Join(Head(buffer), "") \o TextOf(Tail(buffer))

\* KeyboardLogger.notifyListeners('keypress', keyEvent): each 'keypress'
\* callback of the tracker, up to the activity it builds
keypressListener(tr, keyEvent, t) ==
    IF ~tr.isTracking THEN tr
    ELSE [tr EXCEPT !.accepted =
             [i \in 1..tr.subscribed |->
                 At(Keyboard(keyEvent.key, keyEvent.isSpecialKey, keyEvent.text),
                    t)]]

flushKeyBuffer(tr, t) ==
    IF tr.keyBuffer = << >> THEN tr
    ELSE keypressListener([tr EXCEPT !.keyBuffer = << >>],
                          [key |-> KeyTextInput, isSpecialKey |-> FALSE,
                           text |-> TextOf(tr.keyBuffer)], t)

\* KeyboardLogger.start
loggerStart(tr) ==
    IF tr.isLogging THEN tr
    ELSE [tr EXCEPT !.isLogging = TRUE, !.keyBuffer = << >>]

\* KeyboardLogger.stop
loggerStop(tr, t) ==
    IF ~tr.isLogging THEN tr
    ELSE flushKeyBuffer([tr EXCEPT !.isLogging = FALSE], t)

\* handleKeyPress flushing one key late (> for >=)
handleKeyPressLateFlush(tr, key, t) ==
    IF ~tr.isLogging THEN tr
    ELSE IF isSpecialKey(key)
    THEN keypressListener(tr, [key |-> key, isSpecialKey |-> TRUE, text |-> ""], t)
    ELSE LET pushed == [tr EXCEPT !.keyBuffer = Append(@, key)]
         IN  IF \/ key = <<" ">>
                \/ key \in flushKeys
                \/ Len(pushed.keyBuffer) > bufferLimit
             THEN flushKeyBuffer(pushed, t) ELSE pushed

\* KeyboardLogger.handleKeyPress
handleKeyPress(tr, key, t) ==
    IF ~tr.isLogging THEN tr
    ELSE IF isSpecialKey(key)
    THEN keypressListener(tr, [key |-> key, isSpecialKey |-> TRUE, text |-> ""], t)
    ELSE LET pushed == [tr EXCEPT !.keyBuffer = Append(@, key)]
         IN  IF \/ key = <<" ">>
                \/ key \in flushKeys
                \/ Len(pushed.keyBuffer) >= bufferLimit
             THEN flushKeyBuffer(pushed, t) ELSE pushed

\* ActivityTracker.start keeping the timer it already has: a second interval
\* is created on every call
startAgain(tr) ==
    LET logging == IF tr.settings.enableKeyLogging
                   THEN loggerStart([tr EXCEPT !.isTracking = TRUE])
                   ELSE [tr EXCEPT !.isTracking = TRUE]
        timed == IF tr.settings.enableScreenCapture
                 THEN [logging EXCEPT !.intervals = @ + 1,
                                      !.captureInterval = logging.intervals + 1,
                                      !.timers = @ \cup {logging.intervals + 1},
                                      !.delays =
                                          Append(@, tr.settings.captureInterval)]
                 ELSE logging
    IN  [timed EXCEPT !.trackerNotes =
             Append(@, SystemNote("Activity tracking started"))]

\* ActivityTracker.start
start(tr) ==
    IF tr.isTracking THEN tr
    ELSE LET logging == IF tr.settings.enableKeyLogging
                        THEN loggerStart([tr EXCEPT !.isTracking = TRUE])
                        ELSE [tr EXCEPT !.isTracking = TRUE]
             timed == IF tr.settings.enableScreenCapture
                      THEN [logging EXCEPT !.intervals = @ + 1,
                                           !.captureInterval = logging.intervals + 1,
                                           !.timers = @ \cup {logging.intervals + 1},
                                           !.delays =
                                               Append(@, tr.settings.captureInterval)]
                      ELSE logging
         IN  [timed EXCEPT !.trackerNotes =
                  Append(@, SystemNote("Activity tracking started"))]

\* ActivityTracker.stop
stop(tr, t) ==
    IF ~tr.isTracking THEN tr
    ELSE LET cleared == IF tr.captureInterval # 0
                        THEN [tr EXCEPT !.isTracking = FALSE,
                                        !.timers = @ \ {tr.captureInterval},
                                        !.captureInterval = 0]
                        ELSE [tr EXCEPT !.isTracking = FALSE]
             stopped == loggerStop(cleared, t)
         IN  [stopped EXCEPT !.trackerNotes =
                  Append(@, SystemNote("Activity tracking stopped"))]

\* { ...this.settings, ...partial }
Merge(current, partial) ==
    [k \in DOMAIN current |->
        IF k \in DOMAIN partial THEN partial[k] ELSE current[k]]

\* updateSettings that only merges the settings, without stopping and
\* restarting the tracker
updateSettingsMergeOnly(tr, partial, t) ==
    [tr EXCEPT !.settings = Merge(@, partial)]

\* ActivityTracker.updateSettings
updateSettings(tr, partial, t) ==
    LET wasTracking == tr.isTracking
        stopped == IF wasTracking THEN stop(tr, t) ELSE tr
        updated == [stopped EXCEPT !.settings = Merge(@, partial)]
    IN  IF wasTracking THEN start(updated) ELSE updated

\* ActivityTracker.initialize(settings) up to its first await: the settings
\* are merged; the initialize methods of the sub-modules, which it awaits
\* then, change nothing once the tasks are loaded
initialize(tr, partial) == [tr EXCEPT !.settings = Merge(@, partial)]

\* setupEventListeners subscribes one more 'keypress' callback and one more
\* 'suggestion' callback
setupEventListeners(tr) == [tr EXCEPT !.subscribed = @ + 1]

\* the fields of the tracker and of the logger become those of tr
Apply(tr) ==
    /\ isTracking' = tr.isTracking
    /\ settings' = tr.settings
    /\ captureInterval' = tr.captureInterval
    /\ timers' = tr.timers
    /\ intervals' = tr.intervals
    /\ isLogging' = tr.isLogging
    /\ keyBuffer' = tr.keyBuffer
    /\ subscribed' = tr.subscribed
    /\ delays' = tr.delays

\* the rest of one callback that has built an activity: saveActivity, the
\* 'activity' notification and, if enabled, checkForPatterns, on
\* st = [m |-> manager, notes |-> tracker notifications, saved, appended]
Handle(st, activity, enabled, taskList, t) ==
    LET notes == Append(st.notes, ActivityNote(activity))
        after == checkForPatterns(st.m, taskList, activity, t)
    IN  IF enabled
        THEN [m |-> after,
              notes |-> notes \o Forwarded(after.notifications,
                                           Len(st.m.notifications)),
              saved |-> Append(st.saved, activity),
              appended |-> Append(st.appended, activity)]
        ELSE [st EXCEPT !.notes = notes, !.saved = Append(@, activity)]

\* the callbacks run one after the other, each to its end
RECURSIVE HandleAll(_, _, _, _, _)
HandleAll(st, activities, enabled, taskList, t) ==
    IF activities = << >> THEN st
    ELSE HandleAll(Handle(st, Head(activities), enabled, taskList, t),
                   Tail(activities), enabled, taskList, t)

\* the rest of a handler whose callbacks have built the activities in
\* tr.accepted; done is the state they leave
Process(tr) ==
    \E done \in {HandleAll([m |-> Manager, notes |-> tr.trackerNotes,
                            saved |-> saved, appended |-> appended],
                           tr.accepted, tr.settings.enableAutomationSuggestions,
                           tasks, now)} :
        /\ trackerNotes' = done.notes
        /\ saved' = done.saved
        /\ IF tr.accepted # << >> /\ tr.settings.enableAutomationSuggestions
           THEN /\ activityHistory' = done.m.activityHistory
                /\ suggestions' = done.m.suggestions
                /\ notifications' = done.m.notifications
                /\ inflight' = done.m.inflight
                /\ evaluated' = done.m.evaluated
                /\ appended' = done.appended
                /\ lastActivity' = tr.accepted[Len(tr.accepted)]
                /\ lastNow' = now
           ELSE UNCHANGED managerVars

-----------------------------------------------------------------------------
(* Server operations *)

NoCall == [userId |-> 0, activity |-> NoActivity, evals |-> << >>, result |-> 0]

\* checkTriggers(userId, activity) of the server module
ServerCheckTriggers(userId, activity) ==
    LET userTasks == getAutomationTasksByUserId(automationTasks, userId)
        evals == ServerTaskLoop(userTasks, activity)
    IN  /\ srvCall' = [userId |-> userId, activity |-> activity, evals |-> evals,
                       result |-> ReturnedTask(evals)]
        /\ UNCHANGED <<fetches, currentAutomationTaskId, creating, initializing,
                       activityHistory, suggestions, tasks, automationTasks,
                       inflight, notifications, now, appended, lastActivity,
                       lastNow, evaluated, responses, currentScreenshotId>>
        /\ UNCHANGED <<trackerVars, results>>

-----------------------------------------------------------------------------
(* Environment *)

UserIds == {1, 2}

\* the activities the environment produces at time t
Inputs(t) ==
    { At(a, t) : a \in
        { Keyboard(KeyF5, TRUE, ""), Keyboard(KeyEnter, TRUE, ""),
          Keyboard(KeyTextInput, FALSE, "hi"), Keyboard(KeyF5, FALSE, ""),
          MouseClick(10, 10), MouseClick(60, 60), MouseClick(61, 61),
          MouseClick(9, 30), MouseClick(30, 61),
          ScreenCapture(<<100, 100>>, "Editor"), ScreenCapture(<<120, 80>>, ""),
          ScreenCapture(<<121, 100>>, ""), ScreenCapture(<<100, 121>>, ""),
          ScreenCapture(<< >>, "Browser"),
          Application("Mail"), System } }
    \cup {System}

Range(s) == {s[i] : i \in 1..Len(s)}

\* the settings of a new ActivityTracker
DefaultSettings ==
    [captureInterval |-> 1000, enableKeyLogging |-> TRUE,
     enableScreenCapture |-> TRUE, enableAutomationSuggestions |-> TRUE]

\* the tracker and the keyboard logger after initialize(), with the tracker
\* notifications issued so far
InitTracker(notes) ==
    /\ subscribed = 1
    /\ delays = << >>
    /\ typed = << >>
    /\ isTracking = FALSE
    /\ settings = DefaultSettings
    /\ captureInterval = 0
    /\ timers = {}
    /\ intervals = 0
    /\ isLogging = FALSE
    /\ keyBuffer = << >>
    /\ captures = << >>
    /\ trackerNotes = notes
    /\ saved = << >>
    /\ apiCalls = 0
    /\ lastCall = [name |-> "none", wasTracking |-> FALSE]
    /\ pressed = 0

Init ==
    /\ activityHistory = << >>
    /\ suggestions = << >>
    /\ tasks = StoredTasks
    /\ automationTasks = StoredTasks
    /\ inflight = << >>
    /\ notifications = << >>
    /\ now = T0
    /\ appended = << >>
    /\ lastActivity = NoActivity
    /\ lastNow = T0
    /\ evaluated = << >>
    /\ srvCall = NoCall
    /\ responses = << >>
    /\ currentScreenshotId = 1
    /\ currentAutomationTaskId = NextId(StoredTasks)
    /\ creating = << >>
    /\ initializing = 0
    /\ fetches = << >>
    /\ InitTracker(<< >>)
    /\ results = << >>

Tick ==
    /\ now < T0 + MaxTicks
    /\ now' = now + 1
    /\ UNCHANGED <<fetches, currentAutomationTaskId, creating, initializing,
                   activityHistory, suggestions, tasks, automationTasks, inflight,
                   notifications, appended, lastActivity, lastNow, evaluated,
                   srvCall, responses, currentScreenshotId>>
    /\ UNCHANGED <<trackerVars, results>>

Feed ==
    /\ Len(appended) < MaxEvents
    /\ \E a \in Inputs(now) : CheckForPatterns(a, 0)

\* the server matches an activity that the client has produced
ServerMatch ==
    \E userId \in UserIds : \E a \in Range(appended) :
        ServerCheckTriggers(userId, a)

Next == Feed \/ Tick \/ ServerMatch

Spec == Init /\ [][Next]_vars

-----------------------------------------------------------------------------
(* SpecHistory: the manager after a long stream of distinct clicks, two     *)
(* short of the history capacity, then activities chosen freely past it    *)

StreamEvent(k, t) == At(MouseClick(k, 0), t)

\* the manager after construction and the tracker's one initialize(): one
\* callback is subscribed to 'suggestion'
NewManager ==
    [activityHistory |-> << >>, suggestions |-> << >>, notifications |-> << >>,
     inflight |-> << >>, evaluated |-> << >>,
     listeners |-> <<[id |-> 0, throws |-> FALSE]>>]

\* the manager m after checkForPatterns of stream events lo..hi in order, all
\* at time t; the range is halved, and the first half is evaluated before the
\* second starts, to keep the evaluation shallow
RECURSIVE RunStream(_, _, _, _)
RunStream(m, lo, hi, t) ==
    IF lo > hi THEN m
    ELSE IF lo = hi THEN checkForPatterns(m, StoredTasks, StreamEvent(lo, t), t)
    ELSE LET mid == (lo + hi) \div 2
             firstHalf == RunStream(m, lo, mid, t)
         IN  IF Len(firstHalf.activityHistory) > 0
             THEN RunStream(firstHalf, mid + 1, hi, t)
             ELSE firstHalf

AfterStream(n, t) == RunStream(NewManager, 1, n, t)

StreamLength == historyMaxLength - 2

InitHistory ==
    /\ subscribed = 1
    /\ LET warm == AfterStream(StreamLength, T0)
       IN  /\ activityHistory = warm.activityHistory
           /\ suggestions = warm.suggestions
           /\ notifications = warm.notifications
           /\ inflight = warm.inflight
           /\ evaluated = warm.evaluated
           /\ tasks = StoredTasks
           /\ automationTasks = StoredTasks
           /\ now = T0
           /\ appended = [k \in 1..StreamLength |-> StreamEvent(k, T0)]
           /\ lastActivity = StreamEvent(StreamLength, T0)
           /\ lastNow = T0
           /\ srvCall = NoCall
           /\ responses = << >>
           /\ currentScreenshotId = 1
           /\ currentAutomationTaskId = NextId(StoredTasks)
           /\ creating = << >>
           /\ initializing = 0
           /\ fetches = << >>
           /\ InitTracker(Forwarded(warm.notifications, 0))
           /\ results = << >>

StreamInputs(k, t) ==
    {StreamEvent(k, t), At(Keyboard(KeyF5, TRUE, ""), t), At(Application("Mail"), t)}

FeedStream ==
    /\ Len(appended) < historyMaxLength + MaxOverflow
    /\ \E a \in StreamInputs(Len(appended) + 1, now) : CheckForPatterns(a, 0)

NextHistory == FeedStream

SpecHistory == InitHistory /\ [][NextHistory]_vars

-----------------------------------------------------------------------------
(* SpecDetect: a scripted warm-up of nine activities, then application      *)
(* events chosen freely, one millisecond apart                              *)

WarmUp ==
    << MouseClick(10, 10), MouseClick(10, 10), MouseClick(10, 10),
       Keyboard(KeyTextInput, FALSE, "hi"), Keyboard(KeyTextInput, FALSE, "hi"),
       Keyboard(KeyTextInput, FALSE, "hi"), System,
       Application("C"), Application("D") >>

FreeApps == {"A", "B", "C"}

FeedWarmUp ==
    /\ Len(appended) < Len(WarmUp)
    /\ CheckForPatterns(At(WarmUp[Len(appended) + 1], now), 1)

FeedApp ==
    /\ Len(appended) >= Len(WarmUp)
    /\ Len(appended) < Len(WarmUp) + MaxFree
    /\ \E name \in FreeApps : CheckForPatterns(At(Application(name), now), 1)

NextDetect == FeedWarmUp \/ FeedApp

SpecDetect == Init /\ [][NextDetect]_vars

-----------------------------------------------------------------------------
(* SpecWindow: the manager after a history of early clicks, other events   *)
(* and recent clicks, then events chosen freely, one millisecond apart     *)

KeyTab == <<"T", "a", "b">>

\* the events between the clicks: the kinds take turns
Filler(i) ==
    CASE i % 4 = 1 -> System
      [] i % 4 = 2 -> Application("A")
      [] i % 4 = 3 -> ScreenCapture(<<0, 0>>, "")
      [] OTHER     -> Keyboard(KeyTab, TRUE, "")

\* early clicks, then fill other events, then recent clicks
Prefix(early, fill, recent) ==
    [i \in 1..early |-> MouseClick(200, 200)]
      \o [i \in 1..fill |-> Filler(i)]
      \o [i \in 1..recent |-> MouseClick(200, 200)]

\* the manager m after checkForPatterns of the events in order, all at time t
RECURSIVE RunEvents(_, _, _)
RunEvents(m, events, t) ==
    IF events = << >> THEN m
    ELSE RunEvents(checkForPatterns(m, StoredTasks, At(Head(events), t), t),
                   Tail(events), t)

InitWindow ==
    /\ subscribed = 1
    /\ \E early \in 0..MaxClicks : \E fill \in 0..MaxFill :
       \E recent \in 0..MaxClicks :
            LET events == Prefix(early, fill, recent)
                warm == RunEvents(NewManager, events, T0)
            IN  /\ activityHistory = warm.activityHistory
                /\ suggestions = warm.suggestions
                /\ notifications = warm.notifications
                /\ inflight = warm.inflight
                /\ evaluated = warm.evaluated
                /\ tasks = StoredTasks
                /\ automationTasks = StoredTasks
                /\ now = T0
                /\ appended = [k \in 1..Len(events) |-> At(events[k], T0)]
                /\ lastActivity = IF events = << >> THEN NoActivity
                                  ELSE At(events[Len(events)], T0)
                /\ lastNow = T0
                /\ srvCall = NoCall
                /\ responses = << >>
                /\ currentScreenshotId = 1
                /\ currentAutomationTaskId = NextId(StoredTasks)
                /\ creating = << >>
                /\ initializing = 0
                /\ fetches = << >>
                /\ InitTracker(Forwarded(warm.notifications, 0))
                /\ results = << >>

WindowInputs(t) ==
    { At(a, t) : a \in { MouseClick(200, 200), System,
                         Keyboard(KeyTab, TRUE, ""),
                         Keyboard(<<"a">>, FALSE, "a") } }

FeedWindow ==
    /\ now < T0 + MaxTail
    /\ \E a \in WindowInputs(now) : CheckForPatterns(a, 1)

NextWindow == FeedWindow

SpecWindow == InitWindow /\ [][NextWindow]_vars

-----------------------------------------------------------------------------
(* Execution of a task: the route POST /api/automation-tasks/:id/execute    *)
(* and the part of the client's executeTask that follows its await          *)

\* MemStorage.updateAutomationTaskExecutionCount for a stored task
updateAutomationTaskExecutionCount(stored, taskId, t) ==
    [k \in 1..Len(stored) |->
        IF stored[k].id = taskId
        THEN [stored[k] EXCEPT !.executionCount = @ + 1, !.lastExecuted = t]
        ELSE stored[k]]

\* the route storing a task for an id that it does not find
RouteExecuteCreates(stored, taskId, t) ==
    IF \E k \in 1..Len(stored) : stored[k].id = taskId
    THEN [stored |-> updateAutomationTaskExecutionCount(stored, taskId, t),
          ok |-> TRUE]
    ELSE [stored |-> Append(stored, [Task(taskId, 1, "", << >>, TRUE, << >>)
                                       EXCEPT !.executionCount = 1,
                                              !.lastExecuted = t]),
          ok |-> TRUE]

\* the route: 404 for an unknown task, else the count is updated and the
\* response is 200
RouteExecute(stored, taskId, t) ==
    IF \E k \in 1..Len(stored) : stored[k].id = taskId
    THEN [stored |-> updateAutomationTaskExecutionCount(stored, taskId, t),
          ok |-> TRUE]
    ELSE [stored |-> stored, ok |-> FALSE]

\* executeTask after the await taking the catch block whatever the response
\* is: a failed result, no count, false
executeTaskSettleFails(taskList, notes, taskId, ok) ==
    [tasks |-> taskList,
     notes |-> Append(notes,
                      notifyListeners(TaskListeners,
                                      ExecutionNote(taskId, FALSE)).note),
     value |-> "false"]

\* executeTask after the await: response.ok, or the catch block, which is
\* also entered when the notification of the success throws; value is what
\* the promise of executeTask settles with
executeTaskSettle(taskList, notes, taskId, ok) ==
    LET counted == [k \in 1..Len(taskList) |->
                       IF taskList[k].id = taskId
                       THEN [taskList[k] EXCEPT !.executionCount = @ + 1]
                       ELSE taskList[k]]
        done == notifyListeners(TaskListeners, ExecutionNote(taskId, TRUE))
        failed == notifyListeners(TaskListeners, ExecutionNote(taskId, FALSE))
    IN  IF ok /\ ~done.threw
        THEN [tasks |-> counted, notes |-> Append(notes, done.note),
              value |-> "true"]
        ELSE [tasks |-> IF ok THEN counted ELSE taskList,
              notes |-> Append(IF ok THEN Append(notes, done.note) ELSE notes,
                               failed.note),
              value |-> IF failed.threw THEN "rejected" ELSE "false"]

RemoveAt(s, i) == SubSeq(s, 1, i - 1) \o SubSeq(s, i + 1, Len(s))

\* the response of the route to every suspended executeTask
Responses ==
    [i \in 1..Len(inflight) |->
        IF i <= Len(responses) THEN responses[i] ELSE "none"]

\* the route handles the request of the i-th suspended executeTask on the
\* server; its response is on the way to the client, which is still suspended
ExecuteRouteRuns ==
    \E i \in 1..Len(inflight) :
        LET served == RouteExecute(automationTasks, inflight[i], now)
        IN  /\ Responses[i] = "none"
            /\ automationTasks' = served.stored
            /\ responses' = [Responses EXCEPT
                                ![i] = IF served.ok THEN "200" ELSE "404"]
            /\ UNCHANGED managerVars
            /\ UNCHANGED <<fetches, currentAutomationTaskId, creating, initializing,
                           tasks, now, srvCall, currentScreenshotId, results>>
            /\ UNCHANGED trackerVars

\* the fetch of the i-th suspended executeTask settles: the response of the
\* route reaches the client, or the fetch rejects, before the route has
\* handled the request or after
ExecuteTaskSettles ==
    \E i \in 1..Len(inflight) : \E reached \in BOOLEAN :
        LET taskId == inflight[i]
            fetched == IF ~reached THEN "rejected"
                       ELSE IF Responses[i] = "200" THEN "ok" ELSE "not ok"
            settled == executeTaskSettle(tasks, notifications, taskId,
                                         fetched = "ok")
        IN  /\ reached => Responses[i] # "none"
            /\ fetches' = Append(fetches, fetched)
            /\ tasks' = settled.tasks
            /\ notifications' = settled.notes
            /\ trackerNotes' = trackerNotes
                                 \o Forwarded(settled.notes, Len(notifications))
            /\ inflight' = RemoveAt(inflight, i)
            /\ responses' = RemoveAt(Responses, i)
            /\ results' = Append(results, [op |-> "executeTask",
                                           taskId |-> taskId,
                                           value |-> settled.value])
            /\ UNCHANGED <<currentAutomationTaskId, creating, initializing,
                           activityHistory, suggestions, now, appended,
                           lastActivity, lastNow, evaluated, srvCall,
                           automationTasks, currentScreenshotId, isTracking,
                           typed, subscribed, delays, settings, captureInterval,
                           timers, intervals, isLogging, keyBuffer, captures,
                           saved, apiCalls, lastCall, pressed>>

-----------------------------------------------------------------------------
(* SpecTracker: the tracker driven through its interface, the capture timer *)
(* and the keyboard; the requests of a capture are answered before the      *)
(* timer fires again, and the execute requests that triggers start stay     *)
(* pending (SpecOverlap and SpecExecute have the other cases)               *)

\* the partial settings passed to updateSettings
Partials ==
    { [enableAutomationSuggestions |-> FALSE],
      [enableScreenCapture |-> FALSE] }

\* the keys pressed
Keys == { KeyF5, <<"a">>, <<" ">> }

\* the positions that the route GET /api/mouse-position answers in the
\* model, out of the 1920 x 1080 positions that it draws from: one within
\* the tolerance of the mouse trigger at (100, 100) and one far from it
MousePositions == { <<110, 95>>, <<1535, 1024>> }

\* the centre of the window, 1280 x 720 in the model
WindowCentre == <<640, 360>>

\* the outcome of a request for the mouse position that fails
NoPosition == << >>

\* getMousePosition: the position that the route answers, or the centre of
\* the window when the request fails
getMousePosition(answer) ==
    IF answer = NoPosition THEN WindowCentre ELSE answer

\* the placeholder that the catch block of captureScreen returns
Placeholder == [fullScreenPath |-> PlaceholderPath, mouse |-> <<0, 0>>]

\* captureScreen after the route POST /api/capture has stored the screenshot
\* under id: the screenshot that its response describes, or the placeholder
\* when the response does not reach the client
captureScreen(id, position, reached) ==
    IF reached THEN [fullScreenPath |-> ServedPath(id), mouse |-> position]
    ELSE Placeholder

\* analyzeImage: the text data of the OCR route, whose sample text names no
\* application, or the empty result that its catch block returns when the
\* request fails
analyzeImage(reached) ==
    IF reached THEN [applicationName |-> "", confidence |-> ServedConfidence]
    ELSE [applicationName |-> "", confidence |-> 0]

\* the activity that captureActivity builds
CaptureEvent(shot, textData, t) ==
    [At(ScreenCapture(shot.mouse, textData.applicationName), t)
        EXCEPT !.screenshot = shot.fullScreenPath,
               !.textConfidence = textData.confidence]

Start ==
    /\ apiCalls < MaxCalls
    /\ apiCalls' = apiCalls + 1
    /\ lastCall' = [name |-> "start", wasTracking |-> isTracking]
    /\ LET tr == start(Tracker) IN Apply(tr) /\ Process(tr)
    /\ UNCHANGED <<fetches, currentAutomationTaskId, creating, initializing,
                   results, tasks, automationTasks, now, srvCall, responses, currentScreenshotId, captures, pressed,
                   typed>>

Stop ==
    /\ apiCalls < MaxCalls
    /\ apiCalls' = apiCalls + 1
    /\ lastCall' = [name |-> "stop", wasTracking |-> isTracking]
    /\ LET tr == stop(Tracker, now) IN Apply(tr) /\ Process(tr)
    /\ UNCHANGED <<fetches, currentAutomationTaskId, creating, initializing,
                   results, tasks, automationTasks, now, srvCall, responses, currentScreenshotId, captures, pressed,
                   typed>>

\* updateSettings(partial) for one of the given partial settings
UpdateSettingsTo(partials) ==
    /\ apiCalls < MaxCalls
    /\ apiCalls' = apiCalls + 1
    /\ lastCall' = [name |-> "updateSettings", wasTracking |-> isTracking]
    /\ \E partial \in partials :
           LET tr == updateSettings(Tracker, partial, now)
           IN  Apply(tr) /\ Process(tr)
    /\ UNCHANGED <<fetches, currentAutomationTaskId, creating, initializing,
                   results, tasks, automationTasks, now, srvCall, responses, currentScreenshotId, captures, pressed,
                   typed>>

UpdateSettings == UpdateSettingsTo(Partials)

\* a keydown event reaches the document; at most limit of them occur
KeyDownWithin(limit, keys) ==
    /\ pressed < limit
    /\ pressed' = pressed + 1
    /\ \E key \in keys :
           /\ typed' = IF isTracking THEN Append(typed, key) ELSE typed
           /\ LET tr == handleKeyPress(Tracker, key, now)
              IN  Apply(tr) /\ Process(tr)
    /\ UNCHANGED <<fetches, currentAutomationTaskId, creating, initializing,
                   results, tasks, automationTasks, now, srvCall, responses, currentScreenshotId, captures, apiCalls,
                   lastCall>>

KeyDown == KeyDownWithin(MaxKeys, Keys)

CapturesStarted ==
    Len(captures)
      + Cardinality({i \in 1..Len(saved) : saved[i].type = "screen_capture"})

\* an interval timer fires: captureActivity runs up to its first await; at
\* most limit runs are started, and tick numbers the firings in their order
TimerFiresWithin(limit) ==
    /\ CapturesStarted < limit
    /\ \E id \in timers :
           captures' = IF isTracking
                       THEN Append(captures,
                                   [stage |-> "screenshot",
                                    tick |-> CapturesStarted + 1,
                                    shot |-> [fullScreenPath |-> "",
                                              mouse |-> << >>]])
                       ELSE captures
    /\ UNCHANGED managerVars
    /\ UNCHANGED <<fetches, currentAutomationTaskId, creating, initializing,
                   results, tasks, automationTasks, now, srvCall, responses, currentScreenshotId, isTracking, typed, subscribed, delays, settings,
                   captureInterval, timers, intervals, isLogging, keyBuffer,
                   trackerNotes, saved, apiCalls, lastCall, pressed>>

\* getMousePosition has resolved and the route POST /api/capture handles
\* the request of a suspended captureScreen: createScreenshot counts the id
\* up, and the response is on the way to the client; answers are the
\* outcomes of the request for the mouse position
CaptureRouteRuns(answers) ==
    \E i \in 1..Len(captures) : \E answer \in answers :
        /\ captures[i].stage = "screenshot"
        /\ currentScreenshotId' = currentScreenshotId + 1
        /\ captures' = [captures EXCEPT ![i] =
                           [stage |-> "captured",
                            tick |-> captures[i].tick,
                            shot |-> captureScreen(currentScreenshotId,
                                                   getMousePosition(answer),
                                                   TRUE)]]
        /\ UNCHANGED managerVars
        /\ UNCHANGED <<fetches, currentAutomationTaskId, creating, initializing,
                       results, tasks, automationTasks, now, srvCall, responses,
                       isTracking, typed, subscribed, delays, settings,
                       captureInterval, timers, intervals, isLogging, keyBuffer,
                       trackerNotes, saved, apiCalls, lastCall, pressed>>

\* captureScreen resolves: the 'screenshot' notification, then the await of
\* analyzeImage; the response of the route reaches the client, or a request
\* fails, before the route has stored a screenshot or after; outcomes tells
\* whether the requests can succeed and fail
ScreenshotSettles(outcomes) ==
    \E i \in 1..Len(captures) : \E reached \in outcomes :
        LET shot == IF reached THEN captures[i].shot ELSE Placeholder
        IN  /\ captures[i].stage \in {"screenshot", "captured"}
            /\ reached => captures[i].stage = "captured"
            /\ trackerNotes' = Append(trackerNotes, ScreenshotNote(shot))
            /\ captures' = [captures EXCEPT ![i] = [stage |-> "ocr",
                                                    tick |-> captures[i].tick,
                                                    shot |-> shot]]
            /\ UNCHANGED managerVars
            /\ UNCHANGED <<fetches, currentAutomationTaskId, creating, initializing,
                           results, tasks, automationTasks, now, srvCall,
                           responses, currentScreenshotId, isTracking, typed,
                           subscribed, delays, settings, captureInterval,
                           timers, intervals, isLogging, keyBuffer, saved,
                           apiCalls, lastCall, pressed>>

\* analyzeImage resolves: the rest of captureActivity
OcrSettles(outcomes) ==
    \E i \in 1..Len(captures) : \E reached \in outcomes :
        /\ captures[i].stage = "ocr"
        /\ Process([Tracker EXCEPT !.accepted =
                       <<CaptureEvent(captures[i].shot, analyzeImage(reached),
                                      now)>>])
        /\ captures' = RemoveAt(captures, i)
        /\ UNCHANGED <<fetches, currentAutomationTaskId, creating, initializing,
                       results, tasks, automationTasks, now, srvCall, responses, currentScreenshotId, isTracking, typed, subscribed, delays, settings,
                       captureInterval, timers, intervals, isLogging, keyBuffer,
                       apiCalls, lastCall, pressed>>

TimerFires == TimerFiresWithin(MaxCaptures)

\* the capture route handles a request, after a request for the mouse
\* position that was answered or that failed
CaptureServed == CaptureRouteRuns(MousePositions \cup {NoPosition})

\* in SpecTracker the responses of the capture and OCR routes arrive

ScreenshotDone == ScreenshotSettles({TRUE})

OcrDone == OcrSettles({TRUE})

\* the timer fires when the run that the last firing started has finished
TimerFiresNext ==
    /\ captures = << >>
    /\ TimerFires

NextTracker ==
    \/ Start \/ Stop \/ UpdateSettings \/ KeyDown
    \/ TimerFiresNext \/ CaptureServed \/ ScreenshotDone \/ OcrDone

SpecTracker == Init /\ [][NextTracker]_vars

-----------------------------------------------------------------------------
(* SpecInterleave: the callbacks of the keyboard, of the capture timer and  *)
(* of the execute requests that triggers start, in every order              *)

NextInterleave ==
    \/ Start \/ KeyDown
    \/ TimerFiresNext \/ CaptureServed \/ ScreenshotDone \/ OcrDone
    \/ ExecuteRouteRuns \/ ExecuteTaskSettles

SpecInterleave == Init /\ [][NextInterleave]_vars

-----------------------------------------------------------------------------
(* SpecCapture: the capture cycle with collaborators that can fail: either  *)
(* request of captureScreen and the request of analyzeImage may be answered *)
(* or not                                                                   *)

ScreenshotResolves == ScreenshotSettles(BOOLEAN)

OcrResolves == OcrSettles(BOOLEAN)

\* a request POST /api/capture that no capture run of the tracker has sent:
\* createScreenshot counts the id up; the value is the fullScreenPath of the
\* response
PostCapture ==
    /\ currentScreenshotId <= MaxScreenshots
    /\ currentScreenshotId' = currentScreenshotId + 1
    /\ results' = Append(results, [op |-> "route.capture", taskId |-> 0,
                                   value |-> ServedPath(currentScreenshotId)])
    /\ UNCHANGED managerVars
    /\ UNCHANGED <<fetches, tasks, automationTasks, now, srvCall, responses,
                   currentAutomationTaskId, creating, initializing>>
    /\ UNCHANGED trackerVars

\* captureScreen(userId, mouseX, mouseY) of the server module: createScreenshot
\* counts the id up; the value is the fullScreenPath of the record returned
ServerCaptureScreen ==
    /\ currentScreenshotId <= MaxScreenshots
    /\ currentScreenshotId' = currentScreenshotId + 1
    /\ results' = Append(results, [op |-> "server.captureScreen", taskId |-> 0,
                                   value |-> ServedPath(currentScreenshotId)])
    /\ UNCHANGED managerVars
    /\ UNCHANGED <<fetches, tasks, automationTasks, now, srvCall, responses,
                   currentAutomationTaskId, creating, initializing>>
    /\ UNCHANGED trackerVars

NextCapture ==
    \/ Start \/ Stop \/ Tick
    \/ TimerFires \/ CaptureServed \/ ScreenshotResolves \/ OcrResolves
    \/ PostCapture \/ ServerCaptureScreen

SpecCapture == Init /\ [][NextCapture]_vars

-----------------------------------------------------------------------------
(* SpecOverlap: the capture timer fires again while the requests of earlier *)
(* captureActivity runs are still pending, so that several runs are in      *)
(* flight at once                                                           *)

IntervalElapses == TimerFiresWithin(MaxOverlap)

NextOverlap ==
    \/ Start \/ Stop
    \/ IntervalElapses \/ CaptureServed \/ ScreenshotDone \/ OcrDone

SpecOverlap == Init /\ [][NextOverlap]_vars

-----------------------------------------------------------------------------
(* SpecKeys: several keys are typed, regular and special ones, while the    *)
(* tracker is started and stopped                                           *)

KeyStroke == KeyDownWithin(MaxTyped, Keys)

NextKeys == Start \/ Stop \/ KeyStroke

SpecKeys == Init /\ [][NextKeys]_vars

-----------------------------------------------------------------------------
(* SpecInit: SpecKeys with further calls of initialize() on the tracker    *)
(* that Init has initialized once                                           *)

\* the settings passed to initialize
InitialSettings == { [captureInterval |-> 2000] }

\* initialize(settings) is called: it merges the settings and is suspended
\* at its first await
Initialize ==
    /\ subscribed + initializing <= MaxInitialize
    /\ initializing' = initializing + 1
    /\ \E partial \in InitialSettings :
           LET tr == initialize(Tracker, partial)
           IN  Apply(tr) /\ Process(tr)
    /\ UNCHANGED <<fetches, currentAutomationTaskId, creating, results, tasks,
                   automationTasks, now, srvCall, responses,
                   currentScreenshotId, captures, pressed, typed, apiCalls,
                   lastCall>>

\* a suspended initialize() resumes after its last await:
\* setupEventListeners runs and the promise resolves
InitializeResumes ==
    /\ initializing > 0
    /\ initializing' = initializing - 1
    /\ LET tr == setupEventListeners(Tracker)
       IN  Apply(tr) /\ Process(tr)
    /\ UNCHANGED <<fetches, currentAutomationTaskId, creating, results, tasks,
                   automationTasks, now, srvCall, responses,
                   currentScreenshotId, captures, pressed, typed, apiCalls,
                   lastCall>>

NextInit == Start \/ Stop \/ KeyStroke \/ Initialize \/ InitializeResumes

SpecInit == Init /\ [][NextInit]_vars

-----------------------------------------------------------------------------
(* SpecSettings: the settings are changed while the tracker is stopped and  *)
(* while it is tracking, with keys typed in between                         *)

\* the partial settings passed to updateSettings
NewSettings ==
    { [captureInterval |-> 500], [enableKeyLogging |-> FALSE],
      [enableKeyLogging |-> TRUE], [enableScreenCapture |-> FALSE] }

ChangeSettings == UpdateSettingsTo(NewSettings)

NextSettings == Start \/ Stop \/ ChangeSettings \/ KeyStroke

SpecSettings == Init /\ [][NextSettings]_vars

-----------------------------------------------------------------------------
(* SpecBuffer: the keyboard buffer near its limit. The tracker has been     *)
(* started and the letters of a long word were typed, two fewer than the    *)
(* buffer holds before it is flushed; then more keys are typed and the      *)
(* tracker is stopped and started                                           *)

\* the tracker and the keyboard logger after initialize()
NewTracker ==
    [isTracking |-> FALSE, settings |-> DefaultSettings, captureInterval |-> 0,
     timers |-> {}, intervals |-> 0, isLogging |-> FALSE, keyBuffer |-> << >>,
     subscribed |-> 1, delays |-> << >>, trackerNotes |-> << >>,
     accepted |-> << >>]

\* n keydown events of the letter a, handled one after the other
RECURSIVE Typing(_, _, _)
Typing(tr, n, t) ==
    IF n = 0 THEN tr ELSE handleKeyPress(Typing(tr, n - 1, t), <<"a">>, t)

LongWord == [i \in 1..(bufferLimit - 2) |-> <<"a">>]

InitBuffer ==
    LET tr == Typing(start(NewTracker), Len(LongWord), T0)
    IN  /\ activityHistory = << >>
        /\ suggestions = << >>
        /\ tasks = StoredTasks
        /\ automationTasks = StoredTasks
        /\ inflight = << >>
        /\ notifications = << >>
        /\ now = T0
        /\ appended = << >>
        /\ lastActivity = NoActivity
        /\ lastNow = T0
        /\ evaluated = << >>
        /\ srvCall = NoCall
        /\ responses = << >>
        /\ currentScreenshotId = 1
        /\ currentAutomationTaskId = NextId(StoredTasks)
        /\ creating = << >>
        /\ initializing = 0
        /\ fetches = << >>
        /\ results = << >>
        /\ isTracking = tr.isTracking
        /\ settings = tr.settings
        /\ captureInterval = tr.captureInterval
        /\ timers = tr.timers
        /\ intervals = tr.intervals
        /\ isLogging = tr.isLogging
        /\ keyBuffer = tr.keyBuffer
        /\ subscribed = tr.subscribed
        /\ delays = tr.delays
        /\ trackerNotes = tr.trackerNotes
        /\ captures = << >>
        /\ saved = << >>
        /\ apiCalls = 1
        /\ lastCall = [name |-> "start", wasTracking |-> FALSE]
        /\ pressed = Len(LongWord)
        /\ typed = LongWord

\* the keys pressed after the long word
BufferKeys == Keys \cup { <<".">> }

KeyTap == KeyDownWithin(Len(LongWord) + MaxTyped, BufferKeys)

NextBuffer == Start \/ Stop \/ KeyTap

SpecBuffer == InitBuffer /\ [][NextBuffer]_vars

-----------------------------------------------------------------------------
(* SpecMinute: a burst of events around 09:30 with a stored task whose only *)
(* trigger is the time 09:30; the clock passes from 09:29:59.999 into the   *)
(* matching minute                                                          *)

\* the task list in storage: one active task with a single time trigger
MinuteTasks ==
    << Task(7, 1, "Stand-up", <<"open calendar">>, TRUE,
            <<Trigger("time", HalfPastNine)>>) >>

InitMinute ==
    /\ activityHistory = << >>
    /\ suggestions = << >>
    /\ tasks = MinuteTasks
    /\ automationTasks = MinuteTasks
    /\ inflight = << >>
    /\ notifications = << >>
    /\ now = T0
    /\ appended = << >>
    /\ lastActivity = NoActivity
    /\ lastNow = T0
    /\ evaluated = << >>
    /\ srvCall = NoCall
    /\ responses = << >>
    /\ currentScreenshotId = 1
    /\ currentAutomationTaskId = NextId(MinuteTasks)
    /\ creating = << >>
    /\ initializing = 0
    /\ fetches = << >>
    /\ InitTracker(<< >>)
    /\ results = << >>

\* an event of the burst is processed
FeedMinute ==
    /\ Len(appended) < MaxBurst
    /\ \E a \in WindowInputs(now) : CheckForPatterns(a, 0)

NextMinute == FeedMinute \/ Tick \/ ExecuteRouteRuns \/ ExecuteTaskSettles

SpecMinute == InitMinute /\ [][NextMinute]_vars

-----------------------------------------------------------------------------
(* SpecExecute: executions asked for by the user interface, by the server   *)
(* module and by requests to the route, for task ids that exist and for one *)
(* that does not, next to the executions that triggers start                *)

\* the task ids passed to the execute operations; no task has id 99
ExecuteIds == {1, 99}

\* the operations on tasks that were started: those that have returned and
\* those that are suspended
Operations == Len(results) + Len(inflight) + Len(creating)

\* executeTask(taskId) of the client up to its first await: an unknown id is
\* logged and false is returned, else the request is sent
ExecuteTask ==
    /\ Operations < MaxExecutions
    /\ \E taskId \in ExecuteIds :
           /\ inflight' = executeTaskStart(inflight, tasks, taskId)
           /\ results' = IF inflight' = inflight
                         THEN Append(results, [op |-> "executeTask",
                                               taskId |-> taskId,
                                               value |-> "false"])
                         ELSE results
    /\ UNCHANGED <<fetches, currentAutomationTaskId, creating, initializing,
                   activityHistory, suggestions, notifications, evaluated,
                   appended, lastActivity, lastNow, tasks, automationTasks, now,
                   srvCall, responses, currentScreenshotId>>
    /\ UNCHANGED trackerVars

\* executeTask(taskId) of the server module: the lookup throws for an unknown
\* id, the catch block returns false; else the count is updated and true is
\* returned (the activity log that it also writes is not part of the model)
serverExecuteTask(stored, taskId, t) ==
    IF \E k \in 1..Len(stored) : stored[k].id = taskId
    THEN [stored |-> updateAutomationTaskExecutionCount(stored, taskId, t),
          value |-> "true"]
    ELSE [stored |-> stored, value |-> "false"]

ServerExecuteTask ==
    /\ Operations < MaxExecutions
    /\ \E taskId \in ExecuteIds :
           LET done == serverExecuteTask(automationTasks, taskId, now)
           IN  /\ automationTasks' = done.stored
               /\ results' = Append(results, [op |-> "server.executeTask",
                                              taskId |-> taskId,
                                              value |-> done.value])
    /\ UNCHANGED managerVars
    /\ UNCHANGED <<fetches, currentAutomationTaskId, creating, initializing,
                   tasks, now, srvCall, responses, currentScreenshotId>>
    /\ UNCHANGED trackerVars

\* a request POST /api/automation-tasks/:id/execute that does not come from
\* the client manager; the value is the status of the response
PostExecute ==
    /\ Operations < MaxExecutions
    /\ \E taskId \in ExecuteIds :
           LET served == RouteExecute(automationTasks, taskId, now)
           IN  /\ automationTasks' = served.stored
               /\ results' = Append(results,
                                    [op |-> "route", taskId |-> taskId,
                                     value |-> IF served.ok THEN "200"
                                               ELSE "404"])
    /\ UNCHANGED managerVars
    /\ UNCHANGED <<fetches, currentAutomationTaskId, creating, initializing,
                   tasks, now, srvCall, responses, currentScreenshotId>>
    /\ UNCHANGED trackerVars

\* the name of a task that was given none
Undefined == "undefined"

\* the tasks passed to createTask: one whose F5 trigger matches what the
\* trigger of task 1 matches, and one without the name that the schema
\* requires
NewTasks ==
    { [userId |-> 1, name |-> "Reload", description |-> "reloads the page",
       steps |-> <<"press F5">>, triggers |-> <<Trigger("keyboard", KeyF5)>>],
      [userId |-> 1, name |-> Undefined, description |-> "",
       steps |-> << >>, triggers |-> << >>] }

\* the bodies of the requests POST /api/automation-tasks of other callers
NewBodies ==
    { [userId |-> 2, name |-> "Confirm", description |-> "",
       steps |-> <<"press Enter">>, isActive |-> FALSE,
       triggers |-> <<Trigger("keyboard", KeyEnter)>>],
      [userId |-> 1, name |-> Undefined, description |-> "",
       steps |-> << >>, isActive |-> TRUE, triggers |-> << >>] }

NoTask == Task(0, 0, "", << >>, FALSE, << >>)

NoResponse == [status |-> "none", task |-> NoTask]

\* insertAutomationTaskSchema.parse(body) returns: name is a column that is
\* not null (steps and triggers, the other two, are given in every body)
insertAutomationTaskSchemaParses(body) == body.name # Undefined

\* MemStorage.createAutomationTask: the task stored under the id, with the
\* fields of insertTask
createAutomationTask(id, insertTask) ==
    [id |-> id, userId |-> insertTask.userId, name |-> insertTask.name,
     description |-> insertTask.description, steps |-> insertTask.steps,
     isActive |-> insertTask.isActive, triggers |-> insertTask.triggers,
     executionCount |-> 0, lastExecuted |-> NoTimestamp]

\* the route POST /api/automation-tasks on the store and its id counter: 400
\* for a body that the schema rejects, else the task is stored under the
\* next id and returned with 201
RouteCreate(stored, nextId, body) ==
    IF insertAutomationTaskSchemaParses(body)
    THEN [stored |-> Append(stored, createAutomationTask(nextId, body)),
          nextId |-> nextId + 1,
          response |-> [status |-> "201",
                        task |-> createAutomationTask(nextId, body)]]
    ELSE [stored |-> stored, nextId |-> nextId,
          response |-> [status |-> "400", task |-> NoTask]]

\* MemStorage.clearUserData on the stored tasks
clearUserData(stored, userId) ==
    SelectSeq(stored, LAMBDA task : task.userId # userId)

\* createTask after the await: the task of a response that is ok is pushed
\* and the listeners are notified; the catch block returns null
createTaskSettle(taskList, notes, response, ok) ==
    IF ok
    THEN [tasks |-> Append(taskList, response.task),
          notes |-> Append(notes,
                           notifyListeners(TaskListeners,
                                           CreationNote(response.task.id)).note),
          taskId |-> response.task.id, value |-> "task"]
    ELSE [tasks |-> taskList, notes |-> notes, taskId |-> 0, value |-> "null"]

\* createTask(task) of the client up to its await: the request is sent with
\* isActive true
CreateTask ==
    /\ Operations < MaxExecutions
    /\ \E task \in NewTasks :
           creating' = Append(creating,
                              [body |-> [userId |-> task.userId,
                                         name |-> task.name,
                                         description |-> task.description,
                                         steps |-> task.steps,
                                         triggers |-> task.triggers,
                                         isActive |-> TRUE],
                               response |-> NoResponse])
    /\ UNCHANGED managerVars
    /\ UNCHANGED <<fetches, tasks, automationTasks, now, srvCall, responses, results,
                   currentScreenshotId, currentAutomationTaskId, initializing>>
    /\ UNCHANGED trackerVars

\* the route handles the request of the i-th suspended createTask on the
\* server; its response is on the way to the client
CreateRouteRuns ==
    \E i \in 1..Len(creating) :
        LET served == RouteCreate(automationTasks, currentAutomationTaskId,
                                  creating[i].body)
        IN  /\ creating[i].response.status = "none"
            /\ automationTasks' = served.stored
            /\ currentAutomationTaskId' = served.nextId
            /\ creating' = [creating EXCEPT ![i].response = served.response]
            /\ UNCHANGED managerVars
            /\ UNCHANGED <<fetches, tasks, now, srvCall, responses, results,
                           currentScreenshotId, initializing>>
            /\ UNCHANGED trackerVars

\* the fetch of the i-th suspended createTask settles: the response of the
\* route reaches the client, or the fetch rejects, before the route has
\* handled the request or after
CreateTaskSettles ==
    \E i \in 1..Len(creating) : \E reached \in BOOLEAN :
        LET response == creating[i].response
            settled == createTaskSettle(tasks, notifications, response,
                                        reached /\ response.status = "201")
        IN  /\ reached => response.status # "none"
            /\ tasks' = settled.tasks
            /\ notifications' = settled.notes
            /\ creating' = RemoveAt(creating, i)
            /\ results' = Append(results, [op |-> "createTask",
                                           taskId |-> settled.taskId,
                                           value |-> settled.value])
            /\ UNCHANGED <<fetches, activityHistory, suggestions, inflight, evaluated,
                           appended, lastActivity, lastNow, automationTasks,
                           now, srvCall, responses, currentScreenshotId,
                           currentAutomationTaskId, initializing>>
            /\ UNCHANGED trackerVars

\* a request POST /api/automation-tasks that does not come from the client
\* manager; the value is the status of the response
PostAutomationTask ==
    /\ Operations < MaxExecutions
    /\ \E body \in NewBodies :
           LET served == RouteCreate(automationTasks, currentAutomationTaskId,
                                     body)
           IN  /\ automationTasks' = served.stored
               /\ currentAutomationTaskId' = served.nextId
               /\ results' = Append(results,
                                    [op |-> "route.create",
                                     taskId |-> served.response.task.id,
                                     value |-> served.response.status])
    /\ UNCHANGED managerVars
    /\ UNCHANGED <<fetches, tasks, now, srvCall, responses, currentScreenshotId,
                   creating, initializing>>
    /\ UNCHANGED trackerVars

\* a request POST /api/data/clear: the route clears the data of user 1 (the
\* screenshot files that it deletes then are not part of the model)
PostDataClear ==
    /\ Operations < MaxExecutions
    /\ automationTasks' = clearUserData(automationTasks, 1)
    /\ results' = Append(results, [op |-> "route.clear", taskId |-> 0,
                                   value |-> "200"])
    /\ UNCHANGED managerVars
    /\ UNCHANGED <<fetches, tasks, now, srvCall, responses, currentScreenshotId,
                   currentAutomationTaskId, creating, initializing>>
    /\ UNCHANGED trackerVars

\* the events fed in SpecExecute: F5 starts task 1, the click starts nothing
ExecuteInputs(t) == {At(Keyboard(KeyF5, TRUE, ""), t), At(MouseClick(60, 60), t)}

FeedExecute ==
    /\ Len(appended) < MaxEvents
    /\ Operations < MaxExecutions
    /\ \E a \in ExecuteInputs(now) : CheckForPatterns(a, 0)

NextExecute ==
    \/ ExecuteTask \/ ServerExecuteTask \/ PostExecute
    \/ ExecuteRouteRuns \/ ExecuteTaskSettles
    \/ FeedExecute \/ Start \/ Stop

SpecExecute == Init /\ [][NextExecute]_vars

\* SpecTasks: the executions of SpecExecute next to the creation of tasks, by
\* the client and by requests to the route, and to requests that clear the
\* data of user 1; the tracker is not called
NextTasks ==
    \/ ExecuteTask \/ ServerExecuteTask \/ PostExecute
    \/ ExecuteRouteRuns \/ ExecuteTaskSettles
    \/ CreateTask \/ CreateRouteRuns \/ CreateTaskSettles
    \/ PostAutomationTask \/ PostDataClear
    \/ FeedExecute

SpecTasks == Init /\ [][NextTasks]_vars

-----------------------------------------------------------------------------
(* Properties *)

Min(a, b) == IF a < b THEN a ELSE b

\* C1: after any sequence of checkForPatterns calls the history holds the most
\* recent min(historyMaxLength, total) appended activities, in append order
C1_HistoryIsMostRecent ==
    LET total == Len(appended)
        kept == Min(historyMaxLength, total)
    IN  /\ Len(activityHistory) = kept
        /\ \A i \in 1..kept : activityHistory[i] = appended[total - kept + i]

\* an overflow has happened: the first activity appended is gone and the
\* history starts at the second one
C1_Witness ==
    /\ Len(appended) = historyMaxLength + 1
    /\ Len(activityHistory) = historyMaxLength
    /\ activityHistory[1] = appended[2]
    /\ activityHistory[historyMaxLength] = lastActivity

\* C2: the history that the detectors and the trigger matcher observe never
\* holds more than historyMaxLength activities
C2_HistoryBounded == Len(activityHistory) <= historyMaxLength

\* appends went on past the capacity and the history stayed at the capacity
C2_Witness ==
    /\ Len(appended) >= historyMaxLength + 2
    /\ Len(activityHistory) = historyMaxLength

\* the suggestions accepted so far, oldest first, as the listeners were told
Accepted == SelectSeq(notifications, LAMBDA n : n.event = "suggestion")

SameKey(a, b) == a.type = b.type /\ a.subtype = b.subtype

NoDuplicateKeys(sugs) ==
    \A i \in 1..Len(sugs) : \A j \in 1..Len(sugs) :
        i # j => ~SameKey(sugs[i], sugs[j])

\* C3: no two stored suggestions share (type, subtype), and no suggestion is
\* accepted (inserted and notified) while one with its key is stored, that is
\* while fewer than maxSuggestions others were accepted since that one
C3_NoDuplicateSuggestions ==
    /\ NoDuplicateKeys(suggestions)
    /\ \A p \in 1..Len(Accepted) : \A q \in 1..Len(Accepted) :
           (q < p /\ p - q <= maxSuggestions)
               => ~SameKey(Accepted[p], Accepted[q])

\* the repeated-clicks and an application-sequence candidate were found again
\* by a later detector run while their suggestions were stored: the store holds
\* one suggestion for each and the listeners heard of each once
C3_Witness ==
    /\ Len(activityHistory) >= minHistory + 2
    /\ TypeCount(SliceLast(activityHistory, recentWindow), "mouse_click")
         >= repeatThreshold
    /\ Len(suggestions) < maxSuggestions
    /\ Len(Accepted) = Len(suggestions)
    /\ Len(SelectSeq(Accepted, LAMBDA n : n.subtype = "mouse_click")) = 1
    /\ activityHistory[Len(activityHistory)].appName
         = activityHistory[Len(activityHistory) - 1].appName
    /\ \E i \in 1..Len(suggestions) : suggestions[i].type = "app_sequence"

\* C4: the store holds the most recent min(maxSuggestions, accepted) accepted
\* suggestions in acceptance order: never more than maxSuggestions, and an
\* insertion into a full store evicts exactly the oldest one
C4_StoreIsMostRecentAccepted ==
    LET total == Len(Accepted)
        kept == Min(maxSuggestions, total)
    IN  /\ Len(suggestions) = kept
        /\ Len(suggestions) <= maxSuggestions
        /\ \A i \in 1..kept :
               SuggestionNote(SuggestionListeners, suggestions[i])
                 = Accepted[total - kept + i]

\* maxSuggestions + 1 suggestions with distinct keys were accepted: the store
\* holds maxSuggestions and the first accepted is absent
C4_Witness ==
    /\ Len(Accepted) = maxSuggestions + 1
    /\ NoDuplicateKeys(Accepted)
    /\ Len(suggestions) = maxSuggestions
    /\ \A i \in 1..Len(suggestions) : ~SameKey(suggestions[i], Accepted[1])
    /\ SuggestionNote(SuggestionListeners, suggestions[1]) = Accepted[2]

\* C5: the ids of the stored suggestions are pairwise distinct
C5_UniqueSuggestionIds ==
    \A i \in 1..Len(suggestions) : \A j \in 1..Len(suggestions) :
        i # j => suggestions[i].id # suggestions[j].id

\* the evaluations of a task end at its first match
StopsAtFirstMatch(evals) ==
    \A i \in 1..Len(evals) : \A j \in 1..Len(evals) :
        (i < j /\ evals[i].taskId = evals[j].taskId) => ~evals[i].matched

TaskIds == {tasks[k].id : k \in 1..Len(tasks)}

CallCount(calls, taskId) == Cardinality({i \in 1..Len(calls) : calls[i] = taskId})

\* C6: for one activity a task is executed (client) or reported (server) at
\* most once, and no trigger of a task is evaluated after one of them matched
C6_AtMostOncePerTask ==
    /\ StopsAtFirstMatch(evaluated)
    /\ StopsAtFirstMatch(srvCall.evals)
    /\ \A id \in TaskIds :
           /\ CallCount(ExecuteCalls(evaluated), id) <= 1
           /\ CallCount(ExecuteCalls(srvCall.evals), id) <= 1

MatchingTriggers(task, activity, t) ==
    {i \in 1..Len(task.triggers) :
        ClientTriggerMatches(activity, task.triggers[i], t)}

\* the last activity matches two triggers of an active task, which the client
\* executed once and the server reported for the same activity
C6_Witness ==
    \E k \in 1..Len(tasks) :
        /\ tasks[k].isActive
        /\ Cardinality(MatchingTriggers(tasks[k], lastActivity, lastNow)) >= 2
        /\ CallCount(ExecuteCalls(evaluated), tasks[k].id) = 1
        /\ srvCall.activity = lastActivity
        /\ srvCall.result = tasks[k].id

\* C7: every active task with a trigger that matches the activity is fired by
\* the client and reported by the server
C7_EveryMatchingTaskFires ==
    /\ \A k \in 1..Len(tasks) :
           (/\ lastActivity # NoActivity
            /\ tasks[k].isActive
            /\ \E i \in 1..Len(tasks[k].triggers) :
                   ClientTriggerMatches(lastActivity, tasks[k].triggers[i], lastNow))
               => CallCount(ExecuteCalls(evaluated), tasks[k].id) = 1
    /\ \A k \in 1..Len(automationTasks) :
           (/\ srvCall.userId = automationTasks[k].userId
            /\ automationTasks[k].isActive
            /\ \E i \in 1..Len(automationTasks[k].triggers) :
                   activityMatchesTrigger(srvCall.activity,
                                          automationTasks[k].triggers[i]))
               => srvCall.result = automationTasks[k].id

\* the hour and minute that a time trigger of the model names
TimeOfDay(value) == IF value = HalfPastNine THEN <<9, 30>> ELSE << >>

TimeRule(e, activity) ==
    (e.trigger.type = "time" /\ TimeOfDay(e.trigger.value) # << >>)
        => (e.matched <=>
               /\ activity.type = "system"
               /\ activity.timestamp # NoTimestamp
               /\ getHours(activity.timestamp) = TimeOfDay(e.trigger.value)[1]
               /\ getMinutes(activity.timestamp) = TimeOfDay(e.trigger.value)[2])

\* C8: a time trigger matches exactly the system activities that carry a
\* timestamp whose hour and minute are the trigger's
C8_TimeTriggerRule ==
    /\ \A i \in 1..Len(evaluated) : TimeRule(evaluated[i], lastActivity)
    /\ \A i \in 1..Len(srvCall.evals) : TimeRule(srvCall.evals[i], srvCall.activity)

\* x, y, width and height of the click regions of the model
RegionOf(value) ==
    IF value = Region1 THEN <<10, 10, 50, 50>>
    ELSE IF value = Region2 THEN <<0, 0, 20, 20>>
    ELSE << >>

ClickRule(e, activity) ==
    (e.trigger.type = "click" /\ RegionOf(e.trigger.value) # << >>)
        => LET r == RegionOf(e.trigger.value)
           IN  e.matched <=>
                  /\ activity.type = "mouse_click"
                  /\ r[1] <= activity.x /\ activity.x <= r[1] + r[3]
                  /\ r[2] <= activity.y /\ activity.y <= r[2] + r[4]

\* C9: a click trigger matches exactly the mouse_click activities inside its
\* rectangle, edges included
C9_ClickRegionRule ==
    /\ \A i \in 1..Len(evaluated) : ClickRule(evaluated[i], lastActivity)
    /\ \A i \in 1..Len(srvCall.evals) : ClickRule(srvCall.evals[i], srvCall.activity)

\* client and server both matched a click at the far corner (60,60) of
\* "10,10,50,50"
C9_Witness ==
    /\ lastActivity.type = "mouse_click"
    /\ lastActivity.x = 60 /\ lastActivity.y = 60
    /\ \E i \in 1..Len(evaluated) :
           evaluated[i].trigger = Trigger("click", Region1) /\ evaluated[i].matched
    /\ srvCall.activity = lastActivity
    /\ \E i \in 1..Len(srvCall.evals) :
           /\ srvCall.evals[i].trigger = Trigger("click", Region1)
           /\ srvCall.evals[i].matched

KeyboardRule(e, activity) ==
    e.trigger.type = "keyboard"
        => (e.matched <=>
               /\ activity.type = "keyboard"
               /\ activity.isSpecialKey
               /\ activity.key = e.trigger.value)

\* C10: a keyboard trigger matches exactly the keyboard activities flagged as
\* special key whose key is the trigger's value
C10_KeyboardShortcutRule ==
    /\ \A i \in 1..Len(evaluated) : KeyboardRule(evaluated[i], lastActivity)
    /\ \A i \in 1..Len(srvCall.evals) :
           KeyboardRule(srvCall.evals[i], srvCall.activity)

\* client and server both matched a special F5 against the trigger "F5", and
\* the client did not match it against the trigger "text-input"
C10_Witness ==
    /\ lastActivity.type = "keyboard"
    /\ lastActivity.isSpecialKey
    /\ \E i \in 1..Len(evaluated) :
           /\ evaluated[i].trigger = Trigger("keyboard", lastActivity.key)
           /\ evaluated[i].matched
    /\ \E i \in 1..Len(evaluated) :
           /\ evaluated[i].trigger = Trigger("keyboard", KeyTextInput)
           /\ ~evaluated[i].matched
    /\ srvCall.activity = lastActivity
    /\ \E i \in 1..Len(srvCall.evals) :
           /\ srvCall.evals[i].trigger = Trigger("keyboard", KeyF5)
           /\ srvCall.evals[i].matched

\* x and y of the mouse triggers of the model
SpotOf(value) == IF value = Spot THEN <<100, 100>> ELSE << >>

MouseRule(e, activity) ==
    (e.trigger.type = "mouse" /\ SpotOf(e.trigger.value) # << >>)
        => LET p == SpotOf(e.trigger.value)
           IN  e.matched <=>
                  /\ activity.type = "screen_capture"
                  /\ activity.mousePosition # << >>
                  /\ activity.mousePosition[1] - p[1] <= tolerance
                  /\ p[1] - activity.mousePosition[1] <= tolerance
                  /\ activity.mousePosition[2] - p[2] <= tolerance
                  /\ p[2] - activity.mousePosition[2] <= tolerance

\* C11: a mouse trigger matches exactly the screen_capture activities whose
\* mouse coordinates are within 20 of the trigger's on both axes, 20 included
C11_MousePositionRule ==
    /\ \A i \in 1..Len(evaluated) : MouseRule(evaluated[i], lastActivity)
    /\ \A i \in 1..Len(srvCall.evals) : MouseRule(srvCall.evals[i], srvCall.activity)

\* client and server both matched a capture whose mouse is exactly 20 away
\* from "100,100" on both axes
C11_Witness ==
    /\ lastActivity.type = "screen_capture"
    /\ lastActivity.mousePosition = <<120, 80>>
    /\ \E i \in 1..Len(evaluated) :
           evaluated[i].trigger = Trigger("mouse", Spot) /\ evaluated[i].matched
    /\ srvCall.activity = lastActivity
    /\ \E i \in 1..Len(srvCall.evals) :
           /\ srvCall.evals[i].trigger = Trigger("mouse", Spot)
           /\ srvCall.evals[i].matched

\* the activity kind that a trigger kind applies to ("" for an unknown kind)
ApplicableKind(triggerType) ==
    CASE triggerType = "time" -> "system"
      [] triggerType = "mouse" -> "screen_capture"
      [] triggerType = "keyboard" -> "keyboard"
      [] triggerType = "click" -> "mouse_click"
      [] OTHER -> ""

IncompatibleRule(e, activity) ==
    ApplicableKind(e.trigger.type) # activity.type => ~e.matched

\* C12: a trigger evaluated against an activity of a kind it does not apply
\* to, and a trigger of an unknown kind, never match
C12_IncompatibleKindsNeverMatch ==
    /\ \A i \in 1..Len(evaluated) : IncompatibleRule(evaluated[i], lastActivity)
    /\ \A i \in 1..Len(srvCall.evals) :
           IncompatibleRule(srvCall.evals[i], srvCall.activity)

InactiveIds(taskList) ==
    {taskList[k].id : k \in {j \in 1..Len(taskList) : ~taskList[j].isActive}}

\* C13: no inactive task is executed by the client's trigger matching or
\* returned by the server's
C13_InactiveNeverExecuted ==
    /\ \A id \in InactiveIds(tasks) :
           /\ CallCount(ExecuteCalls(evaluated), id) = 0
           /\ CallCount(inflight, id) = 0
    /\ srvCall.result \notin InactiveIds(automationTasks)

\* an inactive task has a trigger that matches the last activity, which the
\* client handled and the server was asked about, and it was not executed
C13_Witness ==
    /\ lastActivity # NoActivity
    /\ srvCall.activity = lastActivity
    /\ \E k \in 1..Len(tasks) :
           /\ ~tasks[k].isActive
           /\ srvCall.userId = tasks[k].userId
           /\ MatchingTriggers(tasks[k], lastActivity, lastNow) # {}
           /\ \E i \in 1..Len(tasks[k].triggers) :
                  activityMatchesTrigger(lastActivity, tasks[k].triggers[i])
           /\ CallCount(inflight, tasks[k].id) = 0

\* the activities handled so far are exactly three clicks at one location
ThreeClicksFed ==
    /\ Len(appended) = 3
    /\ \A i \in 1..3 :
           /\ appended[i].type = "mouse_click"
           /\ appended[i].x = appended[1].x
           /\ appended[i].y = appended[1].y

\* C16: after three clicks at one location on an empty manager the store
\* holds exactly one suggestion: repeated_sequence, mouse_click, confidence 0.6
C16_ThreeClicksOneSuggestion ==
    ThreeClicksFed
        => /\ Len(suggestions) = 1
           /\ suggestions[1].type = "repeated_sequence"
           /\ suggestions[1].subtype = "mouse_click"
           /\ suggestions[1].confidence = 60

ExecutionNotes(taskId) ==
    {i \in 1..Len(notifications) :
        /\ notifications[i].event = "task"
        /\ notifications[i].type = "execution"
        /\ notifications[i].taskId = taskId}

\* C14: every finished execution of a task, successful or failed, is counted:
\* the task's executionCount is the number of its execution results, and its
\* last-executed time is set once it has one
C14_BookkeepingOnEveryOutcome ==
    \A k \in 1..Len(tasks) :
        /\ tasks[k].executionCount = Cardinality(ExecutionNotes(tasks[k].id))
        /\ \A j \in 1..Len(automationTasks) :
               (/\ automationTasks[j].id = tasks[k].id
                /\ ExecutionNotes(tasks[k].id) # {})
                   => automationTasks[j].lastExecuted # NoTimestamp

KnownIds(taskList) == {taskList[k].id : k \in 1..Len(taskList)}

\* the executionCount of the task taskId in a task list
CountOf(taskList, taskId) ==
    taskList[CHOOSE k \in 1..Len(taskList) : taskList[k].id = taskId].executionCount

\* the step returns a result to the caller of an operation
Returns == Len(results') = Len(results) + 1

Returned == results'[Len(results')]

\* the step is the route serving a request of a suspended executeTask(id)
\* with status 200
RouteServes(id) ==
    /\ inflight' = inflight
    /\ \E i \in 1..Len(inflight) :
          /\ inflight[i] = id
          /\ Responses[i] = "none"
          /\ Responses'[i] = "200"

\* the step executes the stored task id: the route serves a request, of the
\* client or of another caller, with status 200, or the server's executeTask
\* returns true
StoreExecutes(id) ==
    \/ RouteServes(id)
    \/ /\ Returns
       /\ Returned.op \in {"server.executeTask", "route"}
       /\ Returned.taskId = id
       /\ Returned.value \in {"true", "200"}

\* a response with status 200 is on the way to a suspended executeTask(id)
Answered(id) ==
    \E i \in 1..Len(inflight) : inflight[i] = id /\ Responses[i] = "200"

\* C15: a step that finishes an execution of a task adds exactly one
\* notification, the result of that task; when the fetch of the execution
\* has given an ok response (the collaborator reports success) the result
\* reports success, executeTask returns true and the task's executionCount
\* grows by exactly one, and when it has not the result reports failure and
\* the count stays; a result reports success only when the route has served
\* the request; the count of a task that stays stored grows by one exactly
\* in the step in which the store executes the task; no other step adds an
\* execution result or changes a count
C15_OneResultPerExecution ==
    [][\A id \in TaskIds :
          /\ id \in KnownIds(automationTasks) \cap KnownIds(automationTasks')
                => CountOf(automationTasks', id) =
                      IF StoreExecutes(id) THEN CountOf(automationTasks, id) + 1
                      ELSE CountOf(automationTasks, id)
          /\ IF CallCount(inflight, id) > CallCount(inflight', id)
             THEN /\ CallCount(inflight', id) = CallCount(inflight, id) - 1
                  /\ Len(notifications') = Len(notifications) + 1
                  /\ notifications'[Len(notifications')].event = "task"
                  /\ notifications'[Len(notifications')].type = "execution"
                  /\ notifications'[Len(notifications')].taskId = id
                  /\ Len(fetches') = Len(fetches) + 1
                  /\ IF fetches'[Len(fetches')] = "ok"
                     THEN /\ notifications'[Len(notifications')].success
                          /\ CountOf(tasks', id) = CountOf(tasks, id) + 1
                          /\ Returns
                          /\ Returned = [op |-> "executeTask", taskId |-> id,
                                         value |-> "true"]
                          /\ Answered(id)
                     ELSE /\ ~notifications'[Len(notifications')].success
                          /\ CountOf(tasks', id) = CountOf(tasks, id)
             ELSE /\ CountOf(tasks', id) = CountOf(tasks, id)
                  /\ \A i \in (Len(notifications) + 1)..Len(notifications') :
                         (/\ notifications'[i].event = "task"
                          /\ notifications'[i].type = "execution")
                            => notifications'[i].taskId # id
      ]_vars

\* a special F5 was handled, the fetch of the execution of task 1 that it
\* started has given an ok response, the execution has finished with one
\* successful result, and the task's count is 1
C15_Witness ==
    /\ lastActivity.type = "keyboard"
    /\ lastActivity.isSpecialKey
    /\ lastActivity.key = KeyF5
    /\ inflight = << >>
    /\ fetches = <<"ok">>
    /\ Cardinality(ExecutionNotes(1)) = 1
    /\ \A i \in ExecutionNotes(1) : notifications[i].success
    /\ CountOf(tasks, 1) = 1
    /\ CountOf(automationTasks, 1) = 1

\* the activity notifications of the tracker, system messages included
ActivityNotes == {j \in 1..Len(trackerNotes) : trackerNotes[j].event = "activity"}

\* C17: while the tracker stays stopped no event is processed: nothing is
\* appended to the history, matched, run through the detectors, saved or
\* notified as an activity
C17_NothingProcessedWhileStopped ==
    [][(~isTracking /\ ~isTracking')
          => /\ activityHistory' = activityHistory
             /\ appended' = appended
             /\ evaluated' = evaluated
             /\ suggestions' = suggestions
             /\ saved' = saved
             /\ Cardinality(ActivityNotes') = Cardinality(ActivityNotes)
      ]_vars

\* C18: at most one capture timer is active, and only while tracking; start()
\* while tracking and stop() while stopped leave the tracker, its timers and
\* its notifications as they were
C18_SingleTimerAndIdempotence ==
    /\ [](/\ Cardinality(timers) <= 1
          /\ timers # {} => isTracking
          /\ timers = IF captureInterval # 0 THEN {captureInterval} ELSE {})
    /\ [][(/\ apiCalls' = apiCalls + 1
           /\ \/ lastCall'.name = "start" /\ isTracking
              \/ lastCall'.name = "stop" /\ ~isTracking)
             => UNCHANGED <<isTracking, typed, subscribed, delays, settings, captureInterval, timers,
                            intervals, isLogging, keyBuffer, captures,
                            trackerNotes, saved, managerVars>>
       ]_vars

\* start() was called while tracking and exactly one timer is active
C18_Witness ==
    /\ lastCall.name = "start"
    /\ lastCall.wasTracking
    /\ isTracking
    /\ Cardinality(timers) = 1
    /\ intervals = 1

\* C19: every event the tracker produced was appended to the history and
\* matched against the triggers, whatever the enableAutomationSuggestions
\* setting
C19_EveryEventHandled ==
    /\ appended = saved
    /\ activityHistory = SliceLast(saved, historyMaxLength)

\* the tracker notifications that carry an execution result
DeliveredResults ==
    {j \in 1..Len(trackerNotes) :
        /\ trackerNotes[j].event # "activity"
        /\ trackerNotes[j].event # "screenshot"
        /\ trackerNotes[j].data.type = "execution"}

AllExecutionNotes ==
    {i \in 1..Len(notifications) :
        notifications[i].event = "task" /\ notifications[i].type = "execution"}

\* C20: every execution result of the manager has been delivered to the
\* tracker's listeners
C20_ResultsReachTrackerListeners ==
    Cardinality(DeliveredResults) = Cardinality(AllExecutionNotes)

-----------------------------------------------------------------------------
(* Failures of the screenshot and OCR collaborators *)

\* the capture events that were built from the placeholder screenshot of a
\* failed captureScreen or from the empty text data of a failed analyzeImage
FromFailedCapture(log) ==
    { i \in 1..Len(log) :
        /\ log[i].type = "screen_capture"
        /\ \/ log[i].screenshot = PlaceholderPath
           \/ log[i].textConfidence = 0 }

\* C21: a capture cycle whose screenshot or OCR collaborator fails produces no
\* activity event: nothing is saved for it and nothing is appended to the
\* history for it
C21_FailedCaptureProducesNoEvent ==
    /\ FromFailedCapture(saved) = {}
    /\ FromFailedCapture(appended) = {}

-----------------------------------------------------------------------------
(* Execution: failures, unknown ids and the frame of an execution *)

AllTaskListeners == [k \in 1..Len(TaskListeners) |-> TaskListeners[k].id]

\* C22: executeTask never throws or rejects: its promise settles with true or
\* false; a failed execution of an existing task settles with false and
\* notifies one failed result; every execution result is delivered to every
\* 'task' listener although the first one throws; the failure leaves the
\* tracking state, the timer and the settings as they are, and in every state
\* start() still leads to tracking and stop() to not tracking
C22_ExecuteNeverThrows ==
    /\ [](/\ \A i \in 1..Len(results) :
                results[i].op = "executeTask"
                    => results[i].value \in {"true", "false"}
          /\ \A i \in 1..Len(notifications) :
                notifications[i].event = "task"
                    => notifications[i].receivedBy = AllTaskListeners
          /\ start(Tracker).isTracking
          /\ ~stop(Tracker, now).isTracking)
    /\ [][(/\ Returns
           /\ Returned.op = "executeTask"
           /\ Returned.taskId \in KnownIds(tasks)
           /\ Returned.value # "true")
          => /\ Returned.value = "false"
             /\ Len(notifications') = Len(notifications) + 1
             /\ LET note == notifications'[Len(notifications')]
                IN  /\ note.event = "task"
                    /\ note.taskId = Returned.taskId
                    /\ ~note.success
             /\ UNCHANGED <<isTracking, timers, captureInterval, typed, subscribed, delays, settings>>]_vars

\* the execution of task 1 has failed while tracking: false was returned, the
\* failed result reached the second listener after the first one threw, and
\* the tracker is still tracking with its timer
C22_Witness ==
    /\ \E i \in 1..Len(results) :
          results[i] = [op |-> "executeTask", taskId |-> 1, value |-> "false"]
    /\ \E i \in 1..Len(notifications) :
          /\ notifications[i].event = "task"
          /\ ~notifications[i].success
          /\ notifications[i].receivedBy = <<1, 2>>
    /\ isTracking
    /\ timers # {}

\* the step is the route answering a suspended executeTask with status 404
RouteRejects(i) ==
    /\ inflight' = inflight
    /\ i \in 1..Len(inflight)
    /\ Responses[i] = "none"
    /\ Responses'[i] = "404"

\* the step is the return of the i-th suspended executeTask, which the
\* response 404 has reached or not
SettlesRejected(i) ==
    /\ Returns
    /\ Returned.op = "executeTask"
    /\ i \in 1..Len(inflight)
    /\ Responses[i] = "404"
    /\ inflight' = RemoveAt(inflight, i)
    /\ responses' = RemoveAt(Responses, i)

\* C23: executing a task id that no task has returns false (the client and
\* the server module) or 404 (the route) and changes nothing: no task is
\* changed or created, no request is sent, nobody is notified; for an id that
\* the client's copy has and the store has not, the route answers 404 and
\* executeTask returns false, and no task is changed or created
C23_UnknownIdChangesNothing ==
    [][/\ (/\ Returns
           /\ Returned.op \in {"executeTask", "server.executeTask", "route"}
           /\ Returned.taskId
                \notin KnownIds(IF Returned.op = "executeTask" THEN tasks
                                ELSE automationTasks))
          => /\ Returned.value \in {"false", "404"}
             /\ UNCHANGED <<tasks, automationTasks, notifications, inflight,
                            trackerNotes>>
       /\ \A i \in 1..Len(inflight) :
             /\ (/\ inflight' = inflight
                 /\ Responses[i] = "none"
                 /\ Responses'[i] # "none")
                   => (Responses'[i] = "404"
                         <=> inflight[i] \notin KnownIds(automationTasks))
             /\ RouteRejects(i) => UNCHANGED <<tasks, automationTasks>>
             /\ SettlesRejected(i)
                   => /\ Returned.value = "false"
                      /\ UNCHANGED <<tasks, automationTasks>>]_vars

\* the client and the route have both been asked to execute task 99
C23_Witness ==
    /\ \E i \in 1..Len(results) :
          results[i] = [op |-> "executeTask", taskId |-> 99, value |-> "false"]
    /\ \E i \in 1..Len(results) :
          results[i] = [op |-> "route", taskId |-> 99, value |-> "404"]
    /\ tasks = StoredTasks
    /\ automationTasks = StoredTasks

\* taskList after one execution of taskId; withTime tells whether the list
\* records the time of the execution
AfterExecution(taskList, taskId, withTime) ==
    [k \in 1..Len(taskList) |->
        IF taskList[k].id = taskId
        THEN [taskList[k] EXCEPT !.executionCount = @ + 1,
                                 !.lastExecuted = IF withTime THEN now ELSE @]
        ELSE taskList[k]]

StoreCreates == currentAutomationTaskId' # currentAutomationTaskId

StoreClears == Returns /\ Returned.op = "route.clear"

ClientCreates == Returns /\ Returned.op = "createTask" /\ Returned.value = "task"

\* the tasks of taskList that kept is made of, in their order and unchanged
Kept(taskList, kept) ==
    SelectSeq(taskList, LAMBDA task : task.id \in KnownIds(kept)) = kept

\* the step finishes an execution of task id by the client: executeTask(id),
\* past its await, returns
ClientExecutes(id) ==
    /\ Returns
    /\ Returned.op = "executeTask"
    /\ Returned.taskId = id
    /\ Len(fetches') = Len(fetches) + 1

\* what a step may do to the stored tasks: the store executes one task, a
\* task is created, the data of user 1 are cleared, or nothing
StoreFrame(ids) ==
    IF \E id \in ids : StoreExecutes(id)
    THEN automationTasks' =
           AfterExecution(automationTasks,
                          CHOOSE id \in ids : StoreExecutes(id), TRUE)
    ELSE IF StoreCreates
    THEN /\ Len(automationTasks') = Len(automationTasks) + 1
         /\ Kept(automationTasks', automationTasks)
    ELSE IF StoreClears
    THEN Kept(automationTasks, automationTasks')
    ELSE automationTasks' = automationTasks

\* C24: every step that finishes an execution of task t (executeTask of the
\* client returns after its request, or the store executes t: the route
\* answers 200 or the server's executeTask returns true) adds exactly 1 to
\* the executionCount of t, in the store together with its lastExecuted, and
\* changes no other field of t (name, description, steps, triggers,
\* isActive) and no other task; every other step, pattern detection and
\* trigger matching among them, changes no task, adds none and deletes none,
\* but for the steps in which a task is created and the requests to clear
\* the data
C24_ExecutionFrame ==
    [][LET ids == TaskIds \cup KnownIds(automationTasks)
       IN  /\ StoreFrame(ids)
           /\ IF \E id \in ids : ClientExecutes(id)
              THEN tasks' = AfterExecution(tasks, Returned.taskId, FALSE)
              ELSE IF ClientCreates
              THEN /\ Len(tasks') = Len(tasks) + 1
                   /\ Kept(tasks', tasks)
              ELSE tasks' = tasks
           /\ appended' # appended
                 => UNCHANGED <<tasks, automationTasks>>]_vars

\* the same frame with the count of the client's copy growing only when
\* executeTask returns true: this is what the steps do
FrameOfSuccessfulExecutions ==
    [][LET ids == TaskIds \cup KnownIds(automationTasks)
       IN  /\ StoreFrame(ids)
           /\ IF \E id \in ids : ClientExecutes(id) /\ Returned.value = "true"
              THEN tasks' = AfterExecution(tasks, Returned.taskId, FALSE)
              ELSE IF ClientCreates
              THEN /\ Len(tasks') = Len(tasks) + 1
                   /\ Kept(tasks', tasks)
              ELSE tasks' = tasks
           /\ appended' # appended
                 => UNCHANGED <<tasks, automationTasks>>]_vars

-----------------------------------------------------------------------------
(* The repeated-type detector *)

\* the last n events of a history (all of them if there are fewer)
LastEvents(history, n) ==
    [i \in 1..Min(n, Len(history)) |->
        history[Len(history) - Min(n, Len(history)) + i]]

KindCount(events, kind) ==
    Cardinality({i \in 1..Len(events) : events[i].type = kind})

KindsOf(events) == {events[i].type : i \in 1..Len(events)}

\* the notifications that the step adds
NewNotes ==
    SubSeq(notifications', Len(notifications) + 1, Len(notifications'))

\* the step appends an event and runs the detectors on the new history
DetectorRun ==
    /\ Len(appended') = Len(appended) + 1
    /\ Len(activityHistory') >= minHistory

Stored(sugs, type, subtype) ==
    \E i \in 1..Len(sugs) : sugs[i].type = type /\ sugs[i].subtype = subtype

\* C25: in a detector run whose window, the last 20 events of the history,
\* holds at least 3 mouse_click events and fewer than 3 events of every other
\* kind, with no suggestion keyed (repeated_sequence, mouse_click) stored
\* before, exactly one suggestion is emitted by the repeated-type detector and
\* its key is (repeated_sequence, mouse_click); and no run emits a repeated
\* suggestion for a kind that has fewer than 3 events in the window, however
\* many older events of the kind the history holds
C25_ClickWindowRule ==
    [][DetectorRun =>
        LET window == LastEvents(activityHistory', recentWindow)
            emitted == {i \in 1..Len(NewNotes) :
                           NewNotes[i].type = "repeated_sequence"}
        IN  /\ (/\ KindCount(window, "mouse_click") >= 3
                /\ \A kind \in KindsOf(window) \ {"mouse_click"} :
                      KindCount(window, kind) < 3
                /\ ~Stored(suggestions, "repeated_sequence", "mouse_click"))
               => /\ Cardinality(emitted) = 1
                  /\ \A i \in emitted : NewNotes[i].subtype = "mouse_click"
                  /\ Stored(suggestions', "repeated_sequence", "mouse_click")
            /\ \A i \in emitted :
                  KindCount(window, NewNotes[i].subtype) >= 3]_vars

\* the one event fed, the tenth of the history, was the third click of a
\* window with fewer than 3 events of every other kind, and one suggestion,
\* for the clicks, was emitted and is stored
C25_Witness ==
    /\ Len(activityHistory) = minHistory
    /\ activityHistory[Len(activityHistory)].type = "mouse_click"
    /\ KindCount(activityHistory, "mouse_click") = 3
    /\ \A kind \in KindsOf(activityHistory) \ {"mouse_click"} :
          KindCount(activityHistory, kind) < 3
    /\ now = T0 + 1
    /\ Len(notifications) = 1
    /\ Len(suggestions) = 1
    /\ suggestions[1].type = "repeated_sequence"
    /\ suggestions[1].subtype = "mouse_click"

\* C27: the repeated-type detector stores suggestions for keyboard and
\* mouse_click only, whatever other kinds occur 3 times or more, and emits the
\* keyboard suggestion only in a run whose window holds a keyboard event with
\* a non-empty text
C27_RepeatedKindsOnly ==
    /\ [](\A i \in 1..Len(suggestions) :
             suggestions[i].type = "repeated_sequence"
                 => suggestions[i].subtype \in {"keyboard", "mouse_click"})
    /\ [][\A i \in 1..Len(NewNotes) :
             (NewNotes[i].type = "repeated_sequence"
                /\ NewNotes[i].subtype = "keyboard")
             => \E k \in 1..Len(LastEvents(activityHistory', recentWindow)) :
                   LET a == LastEvents(activityHistory', recentWindow)[k]
                   IN  a.type = "keyboard" /\ a.text # ""]_vars

\* the window holds 3 or more system, application, screen_capture and keyboard
\* events, no keyboard event has a text, and nothing is stored for them
C27_Witness ==
    /\ Len(activityHistory) >= recentWindow
    /\ \A kind \in {"system", "application", "screen_capture", "keyboard"} :
          KindCount(LastEvents(activityHistory, recentWindow), kind) >= 3
    /\ \A i \in 1..Len(activityHistory) : activityHistory[i].text = ""
    /\ lastActivity.type = "keyboard"
    /\ \A i \in 1..Len(suggestions) : suggestions[i].type # "repeated_sequence"

-----------------------------------------------------------------------------
(* The application-sequence detector and the confidences *)

\* the application names of a history, in order
AppNamesOf(history) ==
    LET named == SelectSeq(history,
                     LAMBDA a : /\ a.type \in {"application", "screen_capture"}
                                /\ a.appName # "")
    IN  [i \in 1..Len(named) |-> named[i].appName]

\* the name used most recently among those outside the set used
LatestOutside(names, used) ==
    names[CHOOSE i \in 1..Len(names) :
              /\ names[i] \notin used
              /\ \A j \in (i + 1)..Len(names) : names[j] \in used]

\* the 3 names used most recently, the most recent first
LastThree(names) ==
    LET first == LatestOutside(names, {})
        second == LatestOutside(names, {first})
    IN  <<first, second, LatestOutside(names, {first, second})>>

\* what the application-sequence detector may and must have done in a step
\* for the application names of the history after it
AppSequenceRule(names) ==
    LET distinct == {names[i] : i \in 1..Len(names)}
        emitted == {i \in 1..Len(NewNotes) : NewNotes[i].type = "app_sequence"}
    IN  IF Cardinality(distinct) < 3 \/ ~DetectorRun THEN emitted = {}
        ELSE LET key == Join(LastThree(names), ",")
             IN  /\ Cardinality(emitted) <= 1
                 /\ \A i \in emitted : NewNotes[i].subtype = key
                 /\ Stored(suggestions', "app_sequence", key)

\* C26: a detector run emits at most one app_sequence suggestion; it emits
\* none when the history names fewer than 3 distinct applications; the key of
\* an emitted one is the 3 distinct names used most recently, joined with the
\* most recent first (history A, B, A, C gives "C,A,B"); and after a run on a
\* history with 3 distinct names a suggestion with that key is stored
C26_AppSequenceKey == [][AppSequenceRule(AppNamesOf(activityHistory'))]_vars

\* the history ends with the applications A, B, A, C and the suggestion with
\* key "C,A,B" is the newest stored
C26_Witness ==
    /\ LET names == AppNamesOf(activityHistory)
       IN  /\ Len(names) >= 4
           /\ SubSeq(names, Len(names) - 3, Len(names)) = <<"A", "B", "A", "C">>
    /\ suggestions # << >>
    /\ suggestions[Len(suggestions)].type = "app_sequence"
    /\ suggestions[Len(suggestions)].subtype = "C,A,B"
    /\ lastActivity.appName = "C"

\* C28: every stored suggestion is a repeated_sequence suggestion for keyboard
\* with confidence 0.7 (70 in the model), one for mouse_click with 0.6, or an
\* app_sequence suggestion with 0.65; the time-of-day detector changes nothing
C28_FixedConfidences ==
    /\ \A i \in 1..Len(suggestions) :
          \/ /\ suggestions[i].type = "repeated_sequence"
             /\ suggestions[i].subtype = "keyboard"
             /\ suggestions[i].confidence = 70
          \/ /\ suggestions[i].type = "repeated_sequence"
             /\ suggestions[i].subtype = "mouse_click"
             /\ suggestions[i].confidence = 60
          \/ /\ suggestions[i].type = "app_sequence"
             /\ suggestions[i].confidence = 65
    /\ LET st == [sugs |-> suggestions, notes |-> notifications,
                 listeners |-> SuggestionListeners]
       IN  detectTimeBasedPatterns(st, activityHistory, now) = st

\* suggestions of all three kinds are stored
C28_Witness ==
    /\ Stored(suggestions, "repeated_sequence", "keyboard")
    /\ Stored(suggestions, "repeated_sequence", "mouse_click")
    /\ \E i \in 1..Len(suggestions) : suggestions[i].type = "app_sequence"

\* detectPatterns with the repeated-type detector after the
\* application-sequence detector
DetectReversed(st, history, t) ==
    IF Len(history) < minHistory THEN st
    ELSE detectRepeatedSequence(
             detectTimeBasedPatterns(
                 detectApplicationPatterns(st, history, t), history, t),
             history, t)

KeysOf(sugs) == {<<sugs[i].type, sugs[i].subtype>> : i \in 1..Len(sugs)}

\* C29: a detector run leaves the same set of stored suggestion keys as the
\* run with the two detectors in the opposite order would, from the same
\* store and on the same history
C29_DetectorOrderIrrelevant ==
    [][DetectorRun =>
         KeysOf(suggestions')
           = KeysOf(DetectReversed([sugs |-> suggestions,
                                    notes |-> notifications,
                                    listeners |-> SuggestionListeners],
                                   activityHistory', now).sugs)]_vars

-----------------------------------------------------------------------------
(* One event at a time *)

\* C30: events are handled one at a time: a step appends at most one event,
\* and the step that appends an event also runs the detectors on the history
\* that ends with it and matches it against the triggers, starting the
\* executions of exactly the tasks it fires; every other step, the stages of
\* a capture that is still waiting and the settling of an execution among
\* them, leaves the history, the suggestions and the evaluations untouched
C30_OneEventAtATime ==
    [][IF appended' # appended
       THEN /\ Len(appended') = Len(appended) + 1
            /\ SubSeq(appended', 1, Len(appended)) = appended
            /\ LET event == appended'[Len(appended')]
                   history == LastEvents(Append(activityHistory, event),
                                         historyMaxLength)
                   fired == ExecuteCalls(checkTriggers(tasks, event, now))
               IN  /\ activityHistory' = history
                   /\ suggestions' =
                        detectPatterns([sugs |-> suggestions,
                                        notes |-> notifications,
                                        listeners |-> SuggestionListeners],
                                       history, now).sugs
                   /\ evaluated' = checkTriggers(tasks, event, now)
                   /\ inflight' = inflight \o fired
       ELSE UNCHANGED <<activityHistory, suggestions, evaluated>>]_vars

\* a key was pressed while a capture was waiting for its text (the tracker
\* notified the start, the screenshot, the key and then the capture): both
\* events were handled, the key first, and an execution that the key started
\* has settled
C30_Witness ==
    /\ Len(appended) = 2
    /\ appended[1].type = "keyboard"
    /\ appended[2].type = "screen_capture"
    /\ activityHistory = appended
    /\ results # << >>
    /\ [i \in 1..Len(trackerNotes) |-> trackerNotes[i].event]
          = <<"activity", "screenshot", "activity", "activity">>

-----------------------------------------------------------------------------
(* Overlapping capture runs *)

\* the ticks of the captureActivity runs in flight
TicksInFlight(runs) == {runs[i].tick : i \in 1..Len(runs)}

\* a captureActivity run finishes and its screen_capture event enters the
\* history
CaptureEnters ==
    /\ Len(appended') = Len(appended) + 1
    /\ appended'[Len(appended')].type = "screen_capture"
    /\ Len(captures') = Len(captures) - 1

\* C31: screen_capture events enter the history in the order of the capture
\* ticks that started them: whenever the event of a captureActivity run
\* enters the history, no run started by an earlier tick is still in flight,
\* also when runs overlap
C31_CaptureEventsInTickOrder ==
    [][CaptureEnters =>
         \A done \in TicksInFlight(captures) \ TicksInFlight(captures') :
             \A other \in TicksInFlight(captures) : done <= other]_vars

-----------------------------------------------------------------------------
(* Time triggers *)

\* the executions of a task that were started: those suspended at their
\* fetch and those that have returned
Started(taskId) ==
    CallCount(inflight, taskId)
      + Cardinality({i \in 1..Len(results) : results[i].taskId = taskId})

\* the clock is in the minute 09:30
InMatchingMinute(t) == getHours(t) = 9 /\ getMinutes(t) = 30

\* C32: a task whose only trigger is time(09:30) is executed at most once
\* during one matching minute, however many events are processed in that
\* minute (the instants of SpecMinute from 09:30:00.000 on lie in one minute,
\* and no execution starts before it)
C32_TimeTaskOncePerMinute ==
    InMatchingMinute(now) => Started(7) <= 1

-----------------------------------------------------------------------------
(* Keyboard events *)

IsRegular(key) == ~isSpecialKey(key)

IsTextInput(e) == e.type = "keyboard" /\ e.key = KeyTextInput /\ ~e.isSpecialKey

\* the texts of the text-input events of a sequence of activities, joined
RECURSIVE TextsOf(_)
TextsOf(events) ==
    IF events = << >> THEN ""
    ELSE (IF IsTextInput(Head(events)) THEN Head(events).text ELSE "")
         \o TextsOf(Tail(events))

\* C33: every regular key pressed while Tracking ends up in exactly one
\* text-input event that the tracker processes (saveActivity, the 'activity'
\* notification, checkForPatterns): the regular keys typed so far are those
\* of the processed text-input events followed by those still buffered, and
\* nothing stays buffered once the tracker is stopped
C33_EveryKeyInOneEvent ==
    /\ TextOf(SelectSeq(typed, IsRegular)) = TextsOf(appended) \o TextOf(keyBuffer)
    /\ TextsOf(saved) = TextsOf(appended)
    /\ ~isTracking => keyBuffer = << >>

\* what the keyboard events of a sequence of activities carry, joined: the
\* text of a text-input event, the name of a special key
RECURSIVE DeliveredKeys(_)
DeliveredKeys(events) ==
    IF events = << >> THEN ""
    ELSE (IF Head(events).type # "keyboard" THEN ""
          ELSE IF Head(events).isSpecialKey THEN Join(Head(events).key, "")
          ELSE Head(events).text)
         \o DeliveredKeys(Tail(events))

\* the keys of a sequence at the positions of a set, in their order
RECURSIVE Pick(_, _, _)
Pick(keys, positions, i) ==
    IF i > Len(keys) THEN << >>
    ELSE (IF i \in positions THEN <<keys[i]>> ELSE << >>)
         \o Pick(keys, positions, i + 1)

\* C34: keyboard events reach the tracker in key-press order: what the events
\* handled so far carry is, in this order, a selection of the keys typed, so
\* that the text-input event with earlier regular keys comes before the event
\* of a special key pressed after them
C34_EventsInKeyPressOrder ==
    \E positions \in SUBSET (1..Len(typed)) :
        DeliveredKeys(saved) = TextOf(Pick(typed, positions, 1))

-----------------------------------------------------------------------------
(* Minimum history *)

\* C35: while the history holds fewer than 10 events no suggestion is stored
\* and no suggestion notification is emitted, by the manager or passed on by
\* the tracker; the event of each of those calls is still matched against the
\* triggers of the tasks and the executions of the tasks it fires are started
C35_NoSuggestionBelowMinimum ==
    /\ [](Len(activityHistory) < minHistory =>
             /\ suggestions = << >>
             /\ \A i \in 1..Len(notifications) :
                    notifications[i].event # "suggestion"
             /\ \A i \in 1..Len(trackerNotes) :
                    trackerNotes[i].event # "automation")
    /\ [][(appended' # appended /\ Len(activityHistory') < minHistory) =>
             LET event == appended'[Len(appended')]
             IN  /\ activityHistory' = Append(activityHistory, event)
                 /\ evaluated' = checkTriggers(tasks, event, now)
                 /\ evaluated' # << >>
                 /\ inflight' = inflight \o ExecuteCalls(evaluated')]_vars

\* nine events are in the history, three clicks and three text inputs among
\* them, without any suggestion; the ninth was matched against the triggers
\* and the clicks have started executions
C35_Witness ==
    /\ Len(activityHistory) = minHistory - 1
    /\ TypeCount(activityHistory, "mouse_click") >= repeatThreshold
    /\ suggestions = << >>
    /\ notifications = << >>
    /\ evaluated # << >>
    /\ CallCount(inflight, 1) = 3

-----------------------------------------------------------------------------
(* Keyboard events and repeated initialize() *)

\* the logger, handling a keydown of key, emits a keyboard event: at once for
\* a special key, by a flush for a space, a punctuation key or the key that
\* fills the buffer
Emits(key) ==
    /\ isLogging
    /\ \/ isSpecialKey(key)
       \/ key = <<" ">>
       \/ key \in flushKeys
       \/ Len(keyBuffer) + 1 >= bufferLimit

\* C36: each keyboard event that the logger emits while Tracking causes
\* exactly one save, one history append and one trigger-matching pass (one
\* checkForPatterns call), however many times initialize() has been called
C36_OneAppendPerKeyboardEvent ==
    [][(typed' # typed /\ Emits(typed'[Len(typed')])) =>
          /\ Len(saved') = Len(saved) + 1
          /\ Len(appended') = Len(appended) + 1
          /\ Len(activityHistory') = Len(activityHistory) + 1]_vars

-----------------------------------------------------------------------------
(* updateSettings *)

\* the step is a call of updateSettings
SettingsUpdated == apiCalls' = apiCalls + 1 /\ lastCall'.name = "updateSettings"

\* C37: updateSettings() preserves the tracking state: called while Stopped
\* it leaves the tracker Stopped with no timer and no keyboard listener
\* attached; called while Tracking it leaves it Tracking with exactly one
\* timer, running at the captureInterval of the new settings, and keyboard
\* logging active if and only if enableKeyLogging is true in the new settings
C37_UpdateSettingsPreservesState ==
    [][SettingsUpdated =>
          IF ~isTracking
          THEN ~isTracking' /\ timers' = {} /\ ~isLogging'
          ELSE /\ isTracking'
               /\ Cardinality(timers') = 1
               /\ \A id \in timers' : delays'[id] = settings'.captureInterval
               /\ isLogging' <=> settings'.enableKeyLogging]_vars

\* C37 as amended: called while Stopped, updateSettings() leaves the tracker
\* Stopped with no timer and no keyboard listener attached; called while
\* Tracking it leaves it Tracking, with exactly one timer running at the new
\* captureInterval if enableScreenCapture is true in the new settings and no
\* timer otherwise, and with keyboard logging active if and only if
\* enableKeyLogging is true in the new settings
C37_UpdateSettingsRestarts ==
    [][SettingsUpdated =>
          IF ~isTracking
          THEN ~isTracking' /\ timers' = {} /\ ~isLogging'
          ELSE /\ isTracking'
               /\ Cardinality(timers') =
                      (IF settings'.enableScreenCapture THEN 1 ELSE 0)
               /\ \A id \in timers' : delays'[id] = settings'.captureInterval
               /\ isLogging' <=> settings'.enableKeyLogging]_vars

\* the capture interval was set to 500 ms while Tracking: the timer of
\* start(), which ran at 1000 ms, is gone, the only timer is the second one
\* created, which runs at 500 ms, and the keyboard logger is logging as the
\* settings say
C37_Witness ==
    /\ lastCall = [name |-> "updateSettings", wasTracking |-> TRUE]
    /\ isTracking
    /\ settings.captureInterval = 500
    /\ timers = {2}
    /\ delays = <<1000, 500>>
    /\ settings.enableKeyLogging /\ isLogging

-----------------------------------------------------------------------------
(* Keyboard buffer *)

\* a keydown event is handled in this step
KeyHandled == pressed' = pressed + 1

\* the key is a flush trigger for the buffer as it is: a space, a punctuation
\* key, or a regular key that is the 20th of the buffer
FlushTrigger(key) ==
    /\ ~isSpecialKey(key)
    /\ \/ key = <<" ">>
       \/ key \in flushKeys
       \/ Len(keyBuffer) + 1 = bufferLimit

\* C38: after every handled key press the buffer of the logger holds at most
\* 19 keys; it is empty right after a flush trigger (space, punctuation, 20th
\* key) and whenever logging is stopped; a key press received while not
\* logging changes nothing
C38_BufferBounds ==
    /\ [](/\ Len(keyBuffer) <= bufferLimit - 1
          /\ ~isLogging => keyBuffer = << >>)
    /\ [][(KeyHandled /\ isLogging /\ FlushTrigger(typed'[Len(typed')]))
              => keyBuffer' = << >>]_vars
    /\ [][(KeyHandled /\ ~isLogging) =>
              UNCHANGED <<keyBuffer, isLogging, isTracking, saved, trackerNotes,
                          appended, activityHistory, inflight>>]_vars

\* the 20th key has flushed the buffer: the text-input event of the twenty
\* letters was processed and the buffer is empty while the logger is logging
C38_Witness ==
    /\ isLogging
    /\ keyBuffer = << >>
    /\ pressed = bufferLimit
    /\ Len(saved) = 1
    /\ saved[1].key = KeyTextInput
    /\ saved[1].text = TextOf([i \in 1..bufferLimit |-> <<"a">>])
    /\ appended = saved

====
